---- MODULE Spec2Model ----
(***************************************************************************)
(* State-machine model of the SimpleDB in-memory relational store:         *)
(* src/src/types.py (conversion), src/src/parser.py (query parser),        *)
(* src/src/table.py (table engine), src/src/database.py (executor) and     *)
(* the record-editing paths of src/web_app/app.py.                         *)
(*                                                                         *)
(* Text is a sequence of one-character strings over the ASCII characters.  *)
(* A Python value is a record [k, n, e, s]:                                *)
(*   k = "int"   : the integer n                                           *)
(*   k = "float" : the finite float n * 10^(-e), where n is not a multiple *)
(*                 of 10 and e is any integer, or n = 0, e = 0 for 0.0     *)
(*   k = "-0.0"  : the float negative zero                                 *)
(*   k = "inf"   : float infinity, n = 1 or -1                             *)
(*   k = "nan"   : a float NaN; n tells NaN objects apart (object          *)
(*                 identity): one object has one serial wherever it is     *)
(*                 held, and 0 marks a NaN just made by float(), which     *)
(*                 gets an unused serial where it is stored                *)
(*   k = "str"   : the string s                                            *)
(*   k = "none"  : None                                                    *)
(* A finite float is kept as the shortest decimal that reads back as it,   *)
(* which is what str() shows.  For decimals of at most 15 significant      *)
(* digits between 2.3e-308 and 1.7e308 that is the decimal as written;     *)
(* larger magnitudes become inf, and below 2.3e-308 float() rounds to the  *)
(* nearest multiple of 2^(-1074), zero included.                           *)
(***************************************************************************)
EXTENDS Integers, Sequences, FiniteSets, TLC

(***************************************************************************)
(* Text helpers (Python str methods).                                      *)
(***************************************************************************)
Digits == <<"0", "1", "2", "3", "4", "5", "6", "7", "8", "9">>

LowerLetters == <<"a", "b", "c", "d", "e", "f", "g", "h", "i", "j", "k", "l", "m",
                  "n", "o", "p", "q", "r", "s", "t", "u", "v", "w", "x", "y", "z">>

UpperLetters == <<"A", "B", "C", "D", "E", "F", "G", "H", "I", "J", "K", "L", "M",
                  "N", "O", "P", "Q", "R", "S", "T", "U", "V", "W", "X", "Y", "Z">>

Range(f) == {f[i] : i \in DOMAIN f}

Min(S) == CHOOSE x \in S : \A y \in S : x <= y

Max(S) == CHOOSE x \in S : \A y \in S : x >= y

DigitChars == Range(Digits)

LowerChars == Range(LowerLetters)

UpperChars == Range(UpperLetters)

\* The characters matched by \w.
WordChars == DigitChars \cup LowerChars \cup UpperChars \cup {"_"}

IsDigit(c) == c \in DigitChars

\* The characters c with c.isspace(): what str.strip(), str.split() and \s of
\* re take for whitespace (space, \t, \n, \v, \f, \r and \x1c..\x1f).
Whitespace == {" ", "\t", "\n", "", "\f", "\r", "", "", "", ""}

\* The whitespace int() and float() skip around a number: \x1c..\x1f are not in it.
NumberSpace == {" ", "\t", "\n", "", "\f", "\r"}

IsSpace(c) == c \in Whitespace

IsWordChar(c) == c \in WordChars

DigitVal(c) == (CHOOSE i \in DOMAIN Digits : Digits[i] = c) - 1

UpperChar(c) ==
    IF c \in LowerChars
    THEN UpperLetters[CHOOSE i \in DOMAIN LowerLetters : LowerLetters[i] = c]
    ELSE c

LowerChar(c) ==
    IF c \in UpperChars
    THEN LowerLetters[CHOOSE i \in DOMAIN UpperLetters : UpperLetters[i] = c]
    ELSE c

Upper(s) == [i \in DOMAIN s |-> UpperChar(s[i])]

Lower(s) == [i \in DOMAIN s |-> LowerChar(s[i])]

RECURSIVE LStrip(_)
LStrip(s) == IF s # <<>> /\ IsSpace(Head(s)) THEN LStrip(Tail(s)) ELSE s

RECURSIVE RStrip(_)
RStrip(s) ==
    IF s # <<>> /\ IsSpace(s[Len(s)]) THEN RStrip(SubSeq(s, 1, Len(s) - 1)) ELSE s

Strip(s) == RStrip(LStrip(s))

\* s.split(c): the pieces of s between occurrences of the character c.
RECURSIVE SplitFrom(_, _, _, _)
SplitFrom(s, c, i, cur) ==
    IF i > Len(s) THEN <<cur>>
    ELSE IF s[i] = c THEN <<cur>> \o SplitFrom(s, c, i + 1, <<>>)
    ELSE SplitFrom(s, c, i + 1, Append(cur, s[i]))

Split(s, c) == SplitFrom(s, c, 1, <<>>)

\* Position of the first occurrence of c in s, 0 when absent.
RECURSIVE FindFrom(_, _, _)
FindFrom(s, c, i) ==
    IF i > Len(s) THEN 0 ELSE IF s[i] = c THEN i ELSE FindFrom(s, c, i + 1)

Find(s, c) == FindFrom(s, c, 1)

RECURSIVE Pow10(_)
Pow10(e) == IF e = 0 THEN 1 ELSE 10 * Pow10(e - 1)

\* The text without the leading and trailing characters of NumberSpace.
RECURSIVE NumberStrip(_)
NumberStrip(s) ==
    IF s # <<>> /\ Head(s) \in NumberSpace THEN NumberStrip(Tail(s))
    ELSE IF s # <<>> /\ s[Len(s)] \in NumberSpace THEN NumberStrip(SubSeq(s, 1, Len(s) - 1))
    ELSE s

RECURSIVE DigitsToNat(_)
DigitsToNat(s) ==
    IF s = <<>> THEN 0
    ELSE 10 * DigitsToNat(SubSeq(s, 1, Len(s) - 1)) + DigitVal(s[Len(s)])

RECURSIVE NatToDigits(_)
NatToDigits(n) ==
    IF n < 10 THEN <<Digits[n + 1]>>
    ELSE Append(NatToDigits(n \div 10), Digits[(n % 10) + 1])

RECURSIVE ZeroPad(_, _)
ZeroPad(s, w) == IF Len(s) >= w THEN s ELSE ZeroPad(<<"0">> \o s, w)

\* Digits with single underscores between them: the digit part of the
\* literals int() and float() accept.
DigitPart(s) ==
    /\ s # <<>>
    /\ \A i \in DOMAIN s :
          \/ IsDigit(s[i])
          \/ s[i] = "_" /\ 1 < i /\ i < Len(s) /\ IsDigit(s[i - 1]) /\ IsDigit(s[i + 1])

\* The digits of a digit part, underscores dropped.
RECURSIVE DigitsOf(_)
DigitsOf(s) ==
    IF s = <<>> THEN <<>>
    ELSE (IF IsDigit(Head(s)) THEN <<Head(s)>> ELSE <<>>) \o DigitsOf(Tail(s))

(***************************************************************************)
(* Python values.                                                          *)
(***************************************************************************)
PyInt(n) == [k |-> "int", n |-> n, e |-> 0, s |-> <<>>]

\* The float n * 10^(-e), n an integer other than 0 or 0 with e = 0.
RECURSIVE NormFloat(_, _)
NormFloat(n, e) ==
    IF n = 0 THEN [k |-> "float", n |-> 0, e |-> 0, s |-> <<>>]
    ELSE IF n % 10 = 0 THEN NormFloat(n \div 10, e - 1)
    ELSE [k |-> "float", n |-> n, e |-> e, s |-> <<>>]

PyNegZero == [k |-> "-0.0", n |-> 0, e |-> 0, s |-> <<>>]

PyInf(sign) == [k |-> "inf", n |-> sign, e |-> 0, s |-> <<>>]

PyNan(serial) == [k |-> "nan", n |-> serial, e |-> 0, s |-> <<>>]

PyStr(s) == [k |-> "str", n |-> 0, e |-> 0, s |-> s]

PyNone == [k |-> "none", n |-> 0, e |-> 0, s |-> <<>>]

\* Python ==: 1 == 1.0, 0.0 == -0.0, '1' != 1, and a NaN equals nothing.
PyEq(a, b) ==
    LET NumberOf(v) == IF v.k = "-0.0" THEN NormFloat(0, 0) ELSE NormFloat(v.n, v.e) IN
    CASE a.k \in {"int", "float", "-0.0"} /\ b.k \in {"int", "float", "-0.0"} ->
            NumberOf(a) = NumberOf(b)
      [] a.k = "inf" /\ b.k = "inf" -> a.n = b.n
      [] a.k = "str" /\ b.k = "str" -> a.s = b.s
      [] a.k = "none" /\ b.k = "none" -> TRUE
      [] OTHER -> FALSE

\* Sign and magnitude of a numeric text after the surrounding whitespace.
SignOf(t) == IF t # <<>> /\ t[1] = "-" THEN -1 ELSE 1

Unsigned(t) == IF t # <<>> /\ t[1] \in {"-", "+"} THEN Tail(t) ELSE t

\* int(str): optional sign and a digit part, surrounding whitespace ignored.
IntSyntax(s) == DigitPart(Unsigned(NumberStrip(s)))

IntOfText(s) == SignOf(NumberStrip(s)) * DigitsToNat(DigitsOf(Unsigned(NumberStrip(s))))

\* float(str) of "inf"/"infinity" in any case, signed or not.
InfSyntax(s) ==
    Lower(Unsigned(NumberStrip(s))) \in {<<"i", "n", "f">>,
                                         <<"i", "n", "f", "i", "n", "i", "t", "y">>}

\* float(str) of "nan" in any case, signed or not.
NanSyntax(s) == Lower(Unsigned(NumberStrip(s))) = <<"n", "a", "n">>

\* The parts of a number text: integer digits, fraction digits, exponent.
\* x is the position of the first exponent marker, 0 when there is none.
NumberParts(body) ==
    LET at == {i \in DOMAIN body : body[i] \in {"e", "E"}}
        Parts(x, mantissa, p) ==
            [ip |-> IF p = 0 THEN mantissa ELSE SubSeq(mantissa, 1, p - 1),
             fp |-> IF p = 0 THEN <<>> ELSE SubSeq(mantissa, p + 1, Len(mantissa)),
             has_exponent |-> x # 0,
             exponent |-> IF x = 0 THEN <<>> ELSE SubSeq(body, x + 1, Len(body))]
        Pointed(x, mantissa) == Parts(x, mantissa, Find(mantissa, "."))
        Marked(x) == Pointed(x, IF x = 0 THEN body ELSE SubSeq(body, 1, x - 1))
    IN  Marked(IF at = {} THEN 0 ELSE CHOOSE i \in at : \A j \in at : i <= j)

\* float(str) of a decimal number: digit parts around at most one point, at
\* least one of them present, and an optional exponent e[sign]digits.
DecimalSyntax(s) ==
    LET Valid(parts) ==
            /\ parts.ip = <<>> \/ DigitPart(parts.ip)
            /\ parts.fp = <<>> \/ DigitPart(parts.fp)
            /\ Len(parts.ip) + Len(parts.fp) > 0
            /\ parts.has_exponent => DigitPart(Unsigned(parts.exponent))
    IN  Valid(NumberParts(Unsigned(NumberStrip(s))))

\* The product of two naturals written in base 1000, least significant limb
\* first (a limb of an argument may exceed 999).
BigMul(a, b) ==
    LET RECURSIVE Dot(_, _, _)
        Dot(i, lo, hi) ==
            IF lo > hi THEN 0
            ELSE IF lo = hi THEN a[lo] * b[i + 1 - lo]
            ELSE Dot(i, lo, (lo + hi) \div 2) + Dot(i, (lo + hi) \div 2 + 1, hi)
        RECURSIVE Carried(_)
        Carried(c) ==
            IF \A i \in DOMAIN c : c[i] < 1000 THEN c
            ELSE Carried([i \in DOMAIN c |->
                             (c[i] % 1000) + (IF i > 1 THEN c[i - 1] \div 1000 ELSE 0)])
        Trimmed(c) == SubSeq(c, 1, Max({i \in DOMAIN c : c[i] # 0} \cup {1}))
    IN  Trimmed(Carried([i \in 1..(Len(a) + Len(b) + 1) |->
                            Dot(i, Max({1, i + 1 - Len(b)}), Min({Len(a), i}))]))

\* 2^1074 in base 1000, least significant limb first: the smallest positive
\* binary64 is 2^(-1074), and the floats below 2^(-1022) are its multiples.
TwoTo1074 ==
    <<784, 494, 93, 741, 707, 307, 263, 6, 646, 508, 327, 186, 532, 502, 230,
      615, 414, 333, 552, 769, 358, 512, 56, 810, 340, 556, 159, 649, 355,
      103, 618, 698, 692, 424, 483, 7, 562, 68, 745, 472, 678, 767, 239, 341,
      216, 93, 742, 907, 466, 364, 361, 566, 276, 424, 517, 921, 509, 738,
      940, 399, 13, 867, 476, 793, 385, 737, 808, 389, 911, 811, 316, 864, 77,
      187, 495, 124, 437, 701, 383, 960, 891, 346, 995, 567, 339, 430, 27,
      358, 901, 356, 118, 142, 764, 649, 556, 49, 307, 917, 718, 346, 495,
      352, 618, 310, 307, 253, 402, 202>>

\* 5^1074 in base 1000, least significant limb first: 2^(-1074) is
\* 5^1074 * 10^(-1074).
FiveTo1074 ==
    <<625, 265, 447, 533, 265, 718, 419, 506, 682, 538, 87, 229, 565, 544,
      767, 242, 279, 90, 637, 702, 205, 164, 941, 809, 664, 993, 598, 733,
      389, 837, 955, 250, 167, 738, 862, 37, 451, 101, 891, 504, 131, 199,
      551, 660, 125, 585, 717, 677, 972, 17, 647, 533, 699, 469, 734, 203,
      778, 84, 656, 874, 247, 927, 375, 776, 730, 524, 982, 904, 247, 329,
      318, 277, 342, 78, 753, 809, 169, 506, 11, 106, 60, 368, 458, 893, 382,
      92, 936, 431, 832, 720, 335, 753, 844, 226, 332, 703, 491, 107, 107,
      268, 790, 193, 720, 934, 264, 35, 348, 501, 115, 386, 552, 593, 801,
      267, 147, 690, 478, 571, 247, 245, 633, 165, 804, 90, 894, 319, 419,
      995, 99, 297, 801, 274, 11, 444, 565, 54, 293, 553, 924, 914, 715, 452,
      319, 249, 106, 603, 395, 870, 681, 867, 566, 585, 266, 710, 911, 655,
      385, 262, 741, 980, 853, 153, 317, 400, 151, 696, 731, 972, 733, 124,
      873, 843, 649, 535, 91, 874, 63, 500, 230, 307, 987, 569, 360, 186, 887,
      36, 821, 489, 678, 171, 458, 278, 45, 114, 903, 131, 7, 263, 781, 818,
      107, 960, 747, 987, 963, 397, 559, 103, 567, 266, 309, 177, 457, 954,
      646, 965, 797, 923, 359, 616, 363, 998, 652, 518, 87, 702, 72, 755, 6,
      825, 856, 255, 644, 247, 143, 26, 598, 650, 723, 213, 682, 928, 687,
      765, 441, 465, 412, 458, 656, 940, 4>>

\* The binary64 nearest to sign * m * 10^(-e) for 0 < m * 10^(-e) < 1e-307,
\* where the floats are the multiples k * 2^(-1074): k is m * 10^(-e) * 2^1074
\* rounded to the nearest integer (a decimal of so few digits is never half
\* way), and the float is held as the decimal of fewest digits that lies
\* within half a step 2^(-1075) of k * 2^(-1074), the nearest to it among
\* those.  Digit sequences are most significant first; v and half are the
\* digits of k * 2^(-1074) and of 2^(-1075) in units of 10^(-1075).
Subnormal(sign, m, e) ==
    LET Lead(c) == IF c[Len(c)] >= 100 THEN 0 ELSE IF c[Len(c)] >= 10 THEN 1 ELSE 2
        Decimal(c) ==
            [i \in 1..(3 * Len(c) - Lead(c)) |->
                (c[Len(c) - ((i + Lead(c) - 1) \div 3)] \div Pow10(2 - ((i + Lead(c) - 1) % 3))) % 10]
        At(a, p) == IF p >= 1 THEN a[p] ELSE 0
        \* a / 10^e to the nearest integer, in base 1000: w digits of a are whole
        Nearest(a, w) ==
            [i \in 1..Max({1, (w + 2) \div 3}) |->
                At(a, w - 3 * (i - 1)) + 10 * At(a, w - 3 * (i - 1) - 1)
                + 100 * At(a, w - 3 * (i - 1) - 2)
                + (IF i = 1 /\ w >= 0 /\ a[w + 1] >= 5 THEN 1 ELSE 0)]
        Multiple(a) == Nearest(a, Len(a) - e)
        Wide(a, n, i) == IF i <= n - Len(a) THEN 0 ELSE a[i - (n - Len(a))]
        LessAt(a, b, n) ==
            \E i \in 1..n : /\ Wide(a, n, i) < Wide(b, n, i)
                            /\ \A j \in 1..(i - 1) : Wide(a, n, j) = Wide(b, n, j)
        Less(a, b) == LessAt(a, b, Max({Len(a), Len(b)}))
        Flipped(t, z) ==
            [i \in DOMAIN t |-> IF i < z THEN 9 - t[i] ELSE IF i = z THEN 10 - t[i] ELSE 0]
        \* 10^Len(t) - t, for t other than 0
        Complement(t) == Flipped(t, Max({i \in DOMAIN t : t[i] # 0}))
        Rest(v, d) == SubSeq(v, d + 1, Len(v))
        Down(v, half, d) == Less(Rest(v, d), half)
        Up(v, half, d) ==
            /\ \E i \in (d + 1)..Len(v) : v[i] # 0
            /\ Less(Complement(Rest(v, d)), half)
        RECURSIVE Value(_, _)
        Value(v, d) == IF d = 0 THEN 0 ELSE 10 * Value(v, d - 1) + v[d]
        Signed(n, x) ==
            IF n # 0 THEN NormFloat(sign * n, x)
            ELSE IF sign < 0 THEN PyNegZero ELSE NormFloat(0, 0)
        Shown(v, half, d) ==
            Signed(Value(v, d)
                   + (IF ~Down(v, half, d) \/ (Up(v, half, d) /\ v[d + 1] >= 5) THEN 1 ELSE 0),
                   1075 - (Len(v) - d))
        Shortest(v, half) ==
            Shown(v, half, Min({d \in 1..17 : Down(v, half, d) \/ Up(v, half, d)}))
    IN  Shortest(Decimal(BigMul(Multiple(Decimal(BigMul(<<m % 1000, (m \div 1000) % 1000,
                                                          (m \div 1000000) % 1000,
                                                          m \div 1000000000>>,
                                                        TwoTo1074))),
                                FiveTo1074)) \o <<0>>,
                 Decimal(BigMul(FiveTo1074, <<5>>)))

\* The binary64 nearest to sign * m * 10^(-e), m >= 0: an infinity above the
\* largest float 1.7976931348623157e308; x is the exponent of the value in
\* scientific notation.
RoundFloat(sign, m, e) ==
    LET x == Len(NatToDigits(m)) - 1 - e IN
    IF m = 0 THEN (IF sign < 0 THEN PyNegZero ELSE NormFloat(0, 0))
    ELSE IF x > 308 \/ (x = 308 /\ m > 1797693134 \div Pow10(9 - Len(NatToDigits(m)) + 1))
    THEN PyInf(sign)
    ELSE IF x < -307 THEN Subnormal(sign, m, e)
    ELSE NormFloat(sign * m, e)

\* The digits without their trailing zeros.
RECURSIVE TrimZeros(_)
TrimZeros(ds) ==
    IF ds # <<>> /\ ds[Len(ds)] = "0" THEN TrimZeros(SubSeq(ds, 1, Len(ds) - 1)) ELSE ds

FloatOfText(s) ==
    LET AllDigits(parts) == DigitsOf(parts.ip) \o DigitsOf(parts.fp)
        Mantissa(parts) == DigitsToNat(TrimZeros(AllDigits(parts)))
        Scale(parts) ==
            Len(DigitsOf(parts.fp))
            - SignOf(parts.exponent) * DigitsToNat(DigitsOf(Unsigned(parts.exponent)))
            - (Len(AllDigits(parts)) - Len(TrimZeros(AllDigits(parts))))
    IN  IF InfSyntax(s) THEN PyInf(SignOf(NumberStrip(s)))
        ELSE IF NanSyntax(s) THEN PyNan(0)
        ELSE RoundFloat(SignOf(NumberStrip(s)),
                        Mantissa(NumberParts(Unsigned(NumberStrip(s)))),
                        Scale(NumberParts(Unsigned(NumberStrip(s)))))

\* str(float) of a finite float other than zero: the digits of n with the
\* point placed, or in exponent notation when the exponent x of the value in
\* scientific notation is below -4 or at least 16.
StrOfFloat(n, e) ==
    LET sg == IF n < 0 THEN <<"-">> ELSE <<>>
        Shown(ds, d, x, ax) ==
            IF x < -4 \/ x >= 16
            THEN sg \o <<ds[1]>> \o (IF d > 1 THEN <<".">> \o SubSeq(ds, 2, d) ELSE <<>>)
                 \o <<"e", IF x < 0 THEN "-" ELSE "+">> \o ZeroPad(NatToDigits(ax), 2)
            ELSE IF x < 0 THEN sg \o <<"0", ".">> \o ZeroPad(<<>>, ax - 1) \o ds
            ELSE IF x >= d - 1 THEN sg \o ds \o ZeroPad(<<>>, x - (d - 1)) \o <<".", "0">>
            ELSE sg \o SubSeq(ds, 1, x + 1) \o <<".">> \o SubSeq(ds, x + 2, d)
        WithPoint(ds, x) == Shown(ds, Len(ds), x, IF x < 0 THEN -x ELSE x)
        OfDigits(ds) == WithPoint(ds, Len(ds) - 1 - e)
    IN  OfDigits(NatToDigits(IF n < 0 THEN -n ELSE n))

\* str(value).
StrOfValue(v) ==
    CASE v.k = "int" ->
            IF v.n < 0 THEN <<"-">> \o NatToDigits(-v.n) ELSE NatToDigits(v.n)
      [] v.k = "float" -> IF v.n = 0 THEN <<"0", ".", "0">> ELSE StrOfFloat(v.n, v.e)
      [] v.k = "-0.0" -> <<"-", "0", ".", "0">>
      [] v.k = "inf" -> IF v.n < 0 THEN <<"-", "i", "n", "f">> ELSE <<"i", "n", "f">>
      [] v.k = "nan" -> <<"n", "a", "n">>
      [] v.k = "str" -> v.s
      [] v.k = "none" -> <<"N", "o", "n", "e">>

(***************************************************************************)
(* src/src/types.py: convert_value.  The outcome is [st, v] with st one of *)
(* "ok", "ValueError" (raised by convert_value) and "OverflowError" (int() *)
(* of an infinity, which convert_value does not catch).                    *)
(***************************************************************************)
INT == <<"I", "N", "T">>

TEXT == <<"T", "E", "X", "T">>

FLOAT == <<"F", "L", "O", "A", "T">>

TextTypes == {TEXT, <<"V", "A", "R", "C", "H", "A", "R">>, <<"C", "H", "A", "R">>,
              <<"S", "T", "R", "I", "N", "G">>}

FloatTypes == {FLOAT, <<"R", "E", "A", "L">>, <<"D", "O", "U", "B", "L", "E">>}

Ok(v) == [st |-> "ok", v |-> v]

Raise(exc) == [st |-> exc, v |-> PyNone]

\* int(value); int(float) of a finite float is its integer part, towards zero.
ToInt(v) ==
    LET Truncated(n, e) ==
            IF e <= 0 THEN n * Pow10(-e)
            ELSE IF e > 9 THEN 0
            ELSE IF n < 0 THEN -((-n) \div Pow10(e)) ELSE n \div Pow10(e)
    IN
    CASE v.k = "int" -> Ok(v)
      [] v.k = "float" -> Ok(PyInt(Truncated(v.n, v.e)))
      [] v.k = "-0.0" -> Ok(PyInt(0))
      [] v.k = "inf" -> Raise("OverflowError")
      [] v.k = "nan" -> Raise("ValueError")
      [] v.k = "str" -> IF IntSyntax(v.s) THEN Ok(PyInt(IntOfText(v.s))) ELSE Raise("ValueError")
      [] v.k = "none" -> Raise("ValueError")

\* float(value)
ToFloat(v) ==
    CASE v.k = "int" -> Ok(NormFloat(v.n, 0))
      [] v.k \in {"float", "-0.0", "inf", "nan"} -> Ok(v)
      [] v.k = "str" ->
            IF InfSyntax(v.s) \/ NanSyntax(v.s) \/ DecimalSyntax(v.s) THEN Ok(FloatOfText(v.s))
            ELSE Raise("ValueError")
      [] v.k = "none" -> Raise("ValueError")

convert_value(value, type_name) ==
    LET tn == Upper(type_name) IN
    IF tn = INT THEN ToInt(value)
    ELSE IF tn \in TextTypes THEN Ok(PyStr(StrOfValue(value)))
    ELSE IF tn \in FloatTypes THEN ToFloat(value)
    ELSE Ok(value)

(***************************************************************************)
(* src/src/parser.py.  A query text is given by the leading keyword that   *)
(* QueryParser.parse dispatches on, whether the statement's regular        *)
(* expression matches, and the text captured by each of its groups; every  *)
(* step after the match is computed on the characters.                     *)
(***************************************************************************)
NoText == <<>>

Query(kw, match, table_name, columns_str, values_str, set_str, where_str, right_table, on) ==
    [kw |-> kw, match |-> match, table_name |-> table_name, columns_str |-> columns_str,
     values_str |-> values_str, set_str |-> set_str, where_str |-> where_str,
     right_table |-> right_table, on |-> on]

NoOn == <<NoText, NoText, NoText, NoText>>

NoWhere == [present |-> FALSE, column |-> NoText, value |-> PyNone]

Where(column, value) == [present |-> TRUE, column |-> column, value |-> value]

Quoted(s) ==
    s # <<>> /\ ((s[1] = "\"" /\ s[Len(s)] = "\"") \/ (s[1] = "'" /\ s[Len(s)] = "'"))

_parse_single_value(value_str) ==
    LET t == Strip(value_str) IN
    IF Quoted(t) THEN PyStr(SubSeq(t, 2, Len(t) - 1))
    ELSE IF IntSyntax(t) THEN PyInt(IntOfText(t))
    ELSE IF InfSyntax(t) \/ NanSyntax(t) \/ DecimalSyntax(t) THEN FloatOfText(t)
    ELSE PyStr(t)

\* The scan of _parse_values splitting at every comma, quoted or not.
RECURSIVE ScanValues_SplitsInQuotes(_, _, _)
ScanValues_SplitsInQuotes(s, i, st) ==
    IF i > Len(s) THEN st
    ELSE LET char == s[i] IN
         ScanValues_SplitsInQuotes(s, i + 1,
            IF char \in {"\"", "'"} /\ ~st.in_quotes
            THEN [st EXCEPT !.in_quotes = TRUE, !.quote_char = char]
            ELSE IF st.in_quotes /\ char = st.quote_char
            THEN [st EXCEPT !.in_quotes = FALSE, !.quote_char = ""]
            ELSE IF char = ","
            THEN [st EXCEPT !.values = Append(@, _parse_single_value(Strip(st.current))),
                            !.current = <<>>]
            ELSE [st EXCEPT !.current = Append(@, char)])

\* The scan of _parse_values: st = [values, current, in_quotes, quote_char].
RECURSIVE ScanValues(_, _, _)
ScanValues(s, i, st) ==
    IF i > Len(s) THEN st
    ELSE LET char == s[i] IN
         ScanValues(s, i + 1,
            IF char \in {"\"", "'"} /\ ~st.in_quotes
            THEN [st EXCEPT !.in_quotes = TRUE, !.quote_char = char]
            ELSE IF st.in_quotes /\ char = st.quote_char
            THEN [st EXCEPT !.in_quotes = FALSE, !.quote_char = ""]
            ELSE IF char = "," /\ ~st.in_quotes
            THEN [st EXCEPT !.values = Append(@, _parse_single_value(Strip(st.current))),
                            !.current = <<>>]
            ELSE [st EXCEPT !.current = Append(@, char)])

_parse_values(values_str) ==
    LET st == ScanValues(values_str, 1,
                  [values |-> <<>>, current |-> <<>>, in_quotes |-> FALSE, quote_char |-> ""])
    IN  IF Strip(st.current) # <<>>
        THEN Append(st.values, _parse_single_value(Strip(st.current)))
        ELSE st.values

\* Length of the longest run of word characters (\w+) of s from position i.
RECURSIVE WordSpan(_, _)
WordSpan(s, i) == IF i <= Len(s) /\ IsWordChar(s[i]) THEN 1 + WordSpan(s, i + 1) ELSE 0

\* Length of the longest run of whitespace (\s*) of s from position i.
RECURSIVE SpaceSpan(_, _)
SpaceSpan(s, i) == IF i <= Len(s) /\ IsSpace(s[i]) THEN 1 + SpaceSpan(s, i + 1) ELSE 0

\* Length of the longest run of characters other than the newline (.+) of s
\* from position i.
RECURSIVE LineSpan(_, _)
LineSpan(s, i) == IF i <= Len(s) /\ s[i] # "\n" THEN 1 + LineSpan(s, i + 1) ELSE 0

\* re.match(r'(\w+)\s*=\s*(.+)', where_str.strip()): group 2 starts at the
\* first character after the whitespace that follows "=" and ends before the
\* next newline.
_parse_where(where_str) ==
    LET t == Strip(where_str)
        w == WordSpan(t, 1)
        eq == w + SpaceSpan(t, w + 1) + 1
        v == eq + SpaceSpan(t, eq + 1) + 1
    IN  IF w >= 1 /\ eq <= Len(t) /\ t[eq] = "=" /\ v <= Len(t)
        THEN Where(SubSeq(t, 1, w),
                   _parse_single_value(Strip(SubSeq(t, v, v + LineSpan(t, v) - 1))))
        ELSE NoWhere

\* str.split() with no argument: the maximal runs of non-whitespace characters.
RECURSIVE WordsFrom(_, _, _)
WordsFrom(s, i, cur) ==
    IF i > Len(s) THEN (IF cur = <<>> THEN <<>> ELSE <<cur>>)
    ELSE IF IsSpace(s[i])
    THEN (IF cur = <<>> THEN <<>> ELSE <<cur>>) \o WordsFrom(s, i + 1, <<>>)
    ELSE WordsFrom(s, i + 1, Append(cur, s[i]))

Words(s) == WordsFrom(s, 1, <<>>)

\* sub in s
Contains(s, sub) ==
    \E i \in 1..(Len(s) - Len(sub) + 1) : SubSeq(s, i, i + Len(sub) - 1) = sub

StripAll(parts) == [i \in DOMAIN parts |-> Strip(parts[i])]

\* A parsed statement; the fields a statement kind does not carry are empty.
Parsed(type, table_name, columns, primary_key, unique_columns, values, set_values, where, right_table, join_condition) ==
    [success |-> TRUE, message |-> "", type |-> type, table_name |-> table_name,
     columns |-> columns, primary_key |-> primary_key, unique_columns |-> unique_columns,
     values |-> values, set_values |-> set_values, where |-> where,
     right_table |-> right_table, join_condition |-> join_condition]

ParseError(message) ==
    [success |-> FALSE, message |-> message, type |-> "", table_name |-> NoText,
     columns |-> <<>>, primary_key |-> NoText, unique_columns |-> <<>>,
     values |-> <<>>, set_values |-> <<>>, where |-> NoWhere,
     right_table |-> NoText, join_condition |-> NoOn]

\* The loop of _parse_create_table keeping the first column marked PRIMARY KEY.
RECURSIVE ScanColDefs_FirstKeyWins(_, _, _)
ScanColDefs_FirstKeyWins(col_defs, i, acc) ==
    IF i > Len(col_defs) \/ ~acc.ok THEN acc
    ELSE LET col_def == col_defs[i]
             parts == Words(col_def)
             up == Upper(col_def)
         IN  IF Len(parts) < 2 THEN [acc EXCEPT !.ok = FALSE]
             ELSE ScanColDefs_FirstKeyWins(col_defs, i + 1,
                    [ok |-> TRUE,
                     columns |-> Append(acc.columns, <<parts[1], Upper(parts[2])>>),
                     primary_key |->
                        IF Contains(up, <<"P", "R", "I", "M", "A", "R", "Y">>)
                           /\ Contains(up, <<"K", "E", "Y">>)
                           /\ acc.primary_key = NoText
                        THEN parts[1] ELSE acc.primary_key,
                     unique_columns |->
                        IF Contains(up, <<"U", "N", "I", "Q", "U", "E">>)
                        THEN Append(acc.unique_columns, parts[1])
                        ELSE acc.unique_columns])

\* The loop over col_defs of _parse_create_table: acc = [ok, columns, primary_key, unique_columns].
RECURSIVE ScanColDefs(_, _, _)
ScanColDefs(col_defs, i, acc) ==
    IF i > Len(col_defs) \/ ~acc.ok THEN acc
    ELSE LET col_def == col_defs[i]
             parts == Words(col_def)
             up == Upper(col_def)
         IN  IF Len(parts) < 2 THEN [acc EXCEPT !.ok = FALSE]
             ELSE ScanColDefs(col_defs, i + 1,
                    [ok |-> TRUE,
                     columns |-> Append(acc.columns, <<parts[1], Upper(parts[2])>>),
                     primary_key |->
                        IF Contains(up, <<"P", "R", "I", "M", "A", "R", "Y">>)
                           /\ Contains(up, <<"K", "E", "Y">>)
                        THEN parts[1] ELSE acc.primary_key,
                     unique_columns |->
                        IF Contains(up, <<"U", "N", "I", "Q", "U", "E">>)
                        THEN Append(acc.unique_columns, parts[1])
                        ELSE acc.unique_columns])

\* _parse_create_table taking the first column as primary key when none is marked.
_parse_create_table_FirstColumnKey(query) ==
    IF ~query.match THEN ParseError("Invalid CREATE TABLE syntax")
    ELSE LET acc == ScanColDefs(StripAll(Split(query.columns_str, ",")), 1,
                        [ok |-> TRUE, columns |-> <<>>, primary_key |-> NoText,
                         unique_columns |-> <<>>])
         IN  IF ~acc.ok THEN ParseError("Invalid column definition")
             ELSE Parsed("CREATE_TABLE", query.table_name, acc.columns,
                         IF acc.primary_key = NoText THEN acc.columns[1][1]
                         ELSE acc.primary_key,
                         acc.unique_columns, <<>>, <<>>, NoWhere, NoText, NoOn)

_parse_create_table(query) ==
    IF ~query.match THEN ParseError("Invalid CREATE TABLE syntax")
    ELSE LET acc == ScanColDefs(StripAll(Split(query.columns_str, ",")), 1,
                        [ok |-> TRUE, columns |-> <<>>, primary_key |-> NoText,
                         unique_columns |-> <<>>])
         IN  IF ~acc.ok THEN ParseError("Invalid column definition")
             ELSE IF acc.primary_key = NoText THEN ParseError("No PRIMARY KEY specified")
             ELSE Parsed("CREATE_TABLE", query.table_name, acc.columns, acc.primary_key,
                         acc.unique_columns, <<>>, <<>>, NoWhere, NoText, NoOn)

_parse_insert(query) ==
    IF ~query.match THEN ParseError("Invalid INSERT syntax")
    ELSE Parsed("INSERT", query.table_name, <<>>, NoText, <<>>,
                _parse_values(query.values_str), <<>>, NoWhere, NoText, NoOn)

\* columns_str of a SELECT: ['*'] or the stripped comma-separated names.
SelectColumns(columns_str) ==
    IF Strip(columns_str) = <<"*">> THEN << <<"*">> >>
    ELSE StripAll(Split(Strip(columns_str), ","))

OptWhere(where_str) == IF where_str # NoText THEN _parse_where(where_str) ELSE NoWhere

\* _parse_select_with_join binding the ON columns by their qualifiers: when the
\* clause is written right table first, its two sides are exchanged.
_parse_select_with_join_ByQualifier(query) ==
    IF ~query.match THEN ParseError("Invalid JOIN syntax")
    ELSE Parsed("SELECT_JOIN", query.table_name, SelectColumns(query.columns_str), NoText,
                <<>>, <<>>, <<>>, OptWhere(query.where_str), query.right_table,
                IF query.on[1] = query.right_table /\ query.on[3] = query.table_name
                   /\ query.table_name # query.right_table
                THEN <<query.on[3], query.on[4], query.on[1], query.on[2]>>
                ELSE query.on)

_parse_select_with_join(query) ==
    IF ~query.match THEN ParseError("Invalid JOIN syntax")
    ELSE Parsed("SELECT_JOIN", query.table_name, SelectColumns(query.columns_str), NoText,
                <<>>, <<>>, <<>>, OptWhere(query.where_str), query.right_table, query.on)

_parse_select(query) ==
    IF query.kw = "SELECT JOIN" THEN _parse_select_with_join(query)
    ELSE IF ~query.match THEN ParseError("Invalid SELECT syntax")
    ELSE Parsed("SELECT", query.table_name, SelectColumns(query.columns_str), NoText,
                <<>>, <<>>, <<>>, OptWhere(query.where_str), NoText, NoOn)

\* dict assignment d[key] = val on a dict kept as a sequence of <<key, val>>
\* pairs in insertion order (the keys are texts).
SetItem(d, key, val) ==
    IF \E i \in DOMAIN d : d[i][1] = key
    THEN [i \in DOMAIN d |-> IF d[i][1] = key THEN <<key, val>> ELSE d[i]]
    ELSE Append(d, <<key, val>>)

\* The loop over set_parts of _parse_update: acc = [ok, set_values].
RECURSIVE ScanSetParts(_, _, _)
ScanSetParts(set_parts, i, acc) ==
    IF i > Len(set_parts) \/ ~acc.ok THEN acc
    ELSE LET part == set_parts[i]
             p == Find(part, "=")
         IN  IF p = 0 THEN [acc EXCEPT !.ok = FALSE]
             ELSE ScanSetParts(set_parts, i + 1,
                    [acc EXCEPT !.set_values =
                        SetItem(@, Strip(SubSeq(part, 1, p - 1)),
                                _parse_single_value(Strip(SubSeq(part, p + 1, Len(part)))))])

_parse_update(query) ==
    IF ~query.match THEN ParseError("Invalid UPDATE syntax")
    ELSE LET acc == ScanSetParts(StripAll(Split(query.set_str, ",")), 1,
                        [ok |-> TRUE, set_values |-> <<>>])
         IN  IF ~acc.ok THEN ParseError("Invalid SET clause")
             ELSE Parsed("UPDATE", query.table_name, <<>>, NoText, <<>>, <<>>,
                         acc.set_values, OptWhere(query.where_str), NoText, NoOn)

_parse_delete(query) ==
    IF ~query.match THEN ParseError("Invalid DELETE syntax")
    ELSE Parsed("DELETE", query.table_name, <<>>, NoText, <<>>, <<>>, <<>>,
                OptWhere(query.where_str), NoText, NoOn)

parse(query) ==
    CASE query.kw = "CREATE TABLE" -> _parse_create_table(query)
      [] query.kw = "INSERT INTO" -> _parse_insert(query)
      [] query.kw \in {"SELECT", "SELECT JOIN"} -> _parse_select(query)
      [] query.kw = "UPDATE" -> _parse_update(query)
      [] query.kw = "DELETE FROM" -> _parse_delete(query)
      [] OTHER -> ParseError("Unsupported query type")

(***************************************************************************)
(* The inputs: names, literals and query texts.                            *)
(***************************************************************************)
users == <<"u", "s", "e", "r", "s">>

orders == <<"o", "r", "d", "e", "r", "s">>

id == <<"i", "d">>

email == <<"e", "m", "a", "i", "l">>

user_id == <<"u", "s", "e", "r", "_", "i", "d">>

ghost == <<"g", "h", "o", "s", "t">>

Star == <<"*">>

Lit1 == <<"1">>

Lit2 == <<"2">>

Lit3 == <<"3">>

Lit4 == <<"4">>

LitF == <<"1", ".", "5">>

LitA == <<"a">>

LitB == <<"b">>

LitInf == <<"i", "n", "f">>

LitQ1 == <<"'", "1", "'">>

\* Numbers as int() and float() also read them: 10 written after a tab with an
\* underscore between its digits, 100.0 written with an exponent, and a NaN.
LitTabbed == <<"\t", "1", "_", "0">>

LitExp == <<"1", "e", "2">>

LitNan == <<"n", "a", "n">>

Sep == <<",", " ">>

Eq == <<" ", "=", " ">>

PrimaryKey == <<" ", "P", "R", "I", "M", "A", "R", "Y", " ", "K", "E", "Y">>

Unique == <<" ", "U", "N", "I", "Q", "U", "E">>

\* "<pk> <pk_type> PRIMARY KEY, <col> <col_type> UNIQUE"
Schema(pk, pk_type, col, col_type) ==
    pk \o <<" ">> \o pk_type \o PrimaryKey \o Sep \o col \o <<" ">> \o col_type \o Unique

UsersSchemas == {Schema(id, INT, email, TEXT), Schema(id, TEXT, email, INT)}

CreateTableQ(table_name, columns_str) ==
    Query("CREATE TABLE", TRUE, table_name, columns_str, NoText, NoText, NoText, NoText, NoOn)

InsertQ(table_name, values_str) ==
    Query("INSERT INTO", TRUE, table_name, NoText, values_str, NoText, NoText, NoText, NoOn)

SelectQ(columns_str, table_name, where_str) ==
    Query("SELECT", TRUE, table_name, columns_str, NoText, NoText, where_str, NoText, NoOn)

UpdateQ(table_name, set_str, where_str) ==
    Query("UPDATE", TRUE, table_name, NoText, NoText, set_str, where_str, NoText, NoOn)

DeleteQ(table_name, where_str) ==
    Query("DELETE FROM", TRUE, table_name, NoText, NoText, NoText, where_str, NoText, NoOn)

JoinQ(columns_str, left_table, right_table, on, where_str) ==
    Query("SELECT JOIN", TRUE, left_table, columns_str, NoText, NoText, where_str,
          right_table, on)

KeyLits == {Lit1, Lit2, Lit3, LitF, LitA}

ValLits == {Lit1, Lit2, LitA, LitInf}

NotEquality == id \o <<" ", ">", " ">> \o Lit1

\* Column lists in which no definition is marked PRIMARY KEY.
NoKeySchemas == {id \o <<" ">> \o INT, id \o <<" ">> \o INT \o Sep \o email \o <<" ">> \o TEXT \o Unique}

CreateQueries ==
    {CreateTableQ(users, c) : c \in UsersSchemas \cup NoKeySchemas}
    \cup {CreateTableQ(orders, c) : c \in NoKeySchemas}

InsertQueries ==
    {InsertQ(users, k \o Sep \o v) : k \in KeyLits, v \in ValLits} \cup {InsertQ(users, Lit1)}

SelectQueries ==
    {SelectQ(Star, users, w) : w \in {NoText, id \o Eq \o Lit1, NotEquality}}
    \cup {SelectQ(email \o Sep \o id, users, w) : w \in {NoText, email \o Eq \o LitA}}

UpdateQueries ==
    {UpdateQ(users, st, w) :
        st \in {email \o Eq \o LitQ1, id \o Eq \o Lit2,
                email \o Eq \o LitA \o Sep \o id \o Eq \o LitA,
                ghost \o Eq \o Lit1, email},
        w \in {NoText, NotEquality, id \o Eq \o Lit1, id \o Eq \o LitQ1, email \o Eq \o LitA}}

DeleteQueries ==
    {DeleteQ(users, w) :
        w \in {NoText, NotEquality, id \o Eq \o Lit1, id \o Eq \o LitQ1, id \o Eq \o Lit2,
               email \o Eq \o LitA}}

\* Statements that fill a table with up to four rows and delete from it: keys
\* 1 to 4, a second column that is UNIQUE or not, values a and b, an UPDATE that
\* gives several rows the key 2, and predicates on either column.
RepeatSchema == id \o <<" ">> \o INT \o PrimaryKey \o Sep \o email \o <<" ">> \o TEXT

FourCreateQueries == {CreateTableQ(users, c) : c \in {Schema(id, INT, email, TEXT), RepeatSchema}}

FourInsertQueries ==
    {InsertQ(users, k \o Sep \o v) : k \in {Lit1, Lit2, Lit3, Lit4}, v \in {LitA, LitB}}

FourUpdateQueries == {UpdateQ(users, id \o Eq \o Lit2, email \o Eq \o LitB)}

FourDeleteQueries ==
    {DeleteQ(users, w) :
        w \in {id \o Eq \o Lit1, id \o Eq \o Lit2, id \o Eq \o Lit3, id \o Eq \o Lit4,
               email \o Eq \o LitA, email \o Eq \o LitB}}

OtherQueries ==
    {Query("DROP", FALSE, NoText, NoText, NoText, NoText, NoText, NoText, NoOn),
     Query("INSERT INTO", FALSE, NoText, NoText, NoText, NoText, NoText, NoText, NoOn)}

\* "<table>.<column>"
Prefixed(table_name, col) == table_name \o <<".">> \o col

\* The two-table inputs of the join specification.
OrdersSchema == id \o <<" ">> \o INT \o PrimaryKey \o Sep \o user_id \o <<" ">> \o FLOAT

JoinCreateQueries ==
    {CreateTableQ(users, Schema(id, INT, email, TEXT)), CreateTableQ(orders, OrdersSchema)}

JoinInsertQueries ==
    {InsertQ(users, k \o Sep \o v) : k \in {Lit1, Lit2}, v \in {Lit1, LitA}}
    \cup {InsertQ(orders, k \o Sep \o v) : k \in {Lit1, Lit2, Lit3}, v \in {Lit1, Lit2, LitNan}}

JoinDeleteQueries ==
    {DeleteQ(users, id \o Eq \o Lit1), DeleteQ(orders, user_id \o Eq \o Lit1)}

\* ON <lt>.<lc> = <rt>.<rc>
On(lt, lc, rt, rc) == <<lt, lc, rt, rc>>

JoinColumns == {Star, Prefixed(users, id) \o Sep \o Prefixed(orders, id)}

JoinPairs ==
    {<<users, orders, On(users, id, orders, user_id)>>,
     <<orders, users, On(orders, user_id, users, id)>>,
     <<users, orders, On(users, email, orders, user_id)>>,
     <<users, users, On(users, id, users, id)>>,
     <<users, ghost, On(users, id, ghost, id)>>,
     <<users, orders, On(users, ghost, orders, id)>>,
     <<users, orders, On(users, id, orders, email)>>,
     <<users, orders, On(users, ghost, orders, email)>>,
     <<orders, orders, On(orders, id, orders, user_id)>>,
     <<users, orders, On(orders, id, users, user_id)>>}

JoinQueries == {JoinQ(c, j[1], j[2], j[3], NoText) : c \in JoinColumns, j \in JoinPairs}

\* WHERE predicates on a prefixed key of the combined row: the table and the
\* column of the key, and the value as written.
JoinWhereCases ==
    {[table |-> users, column |-> id, lit |-> Lit1],
     [table |-> orders, column |-> user_id, lit |-> Lit2]}

\* SELECT * FROM users JOIN orders ON users.id = orders.user_id WHERE <table>.<column> = <lit>
JoinWhereQ(c) ==
    JoinQ(Star, users, orders, On(users, id, orders, user_id),
          Prefixed(c.table, c.column) \o Eq \o c.lit)

JoinWhereQueries == {JoinWhereQ(c) : c \in JoinWhereCases}

(***************************************************************************)
(* parse is a function of the query text alone: the texts of the input     *)
(* sets are parsed once, and parser_parse(query) is parse(query).          *)
(***************************************************************************)
\* SELECT * FROM users WHERE id = <key literal>
SelectByKey(k) == SelectQ(Star, users, id \o Eq \o k)

\* Statements that fill the table before the concurrent handlers start.
ThreadsSetupQueries ==
    {CreateTableQ(users, Schema(id, INT, email, TEXT)), InsertQ(users, Lit3 \o Sep \o <<"c">>)}

AllQueries ==
    {SelectByKey(k) : k \in KeyLits} \cup CreateQueries \cup InsertQueries \cup SelectQueries \cup UpdateQueries
    \cup DeleteQueries \cup OtherQueries
    \cup JoinCreateQueries \cup JoinInsertQueries \cup JoinDeleteQueries \cup JoinQueries
    \cup ThreadsSetupQueries
    \cup JoinWhereQueries

ParseTable == [q \in AllQueries |-> parse(q)]

parser_parse(query) == IF query \in AllQueries THEN ParseTable[query] ELSE parse(query)

(***************************************************************************)
(* Python dict keyed by values (the indexes): a function from key values   *)
(* to row positions.  A lookup finds the key that is the same object as    *)
(* the one looked up or equal to it; only for a NaN do the two differ.     *)
(***************************************************************************)
EmptyDict == [q \in {} |-> 0]

KeyEq(a, b) == a = b \/ PyEq(a, b)

DictHas(d, key) == \E q \in DOMAIN d : KeyEq(q, key)

DictKey(d, key) == CHOOSE q \in DOMAIN d : KeyEq(q, key)

DictGet(d, key) == d[DictKey(d, key)]

DictSet(d, key, val) ==
    IF DictHas(d, key) THEN [d EXCEPT ![DictKey(d, key)] = val]
    ELSE [q \in DOMAIN d \cup {key} |-> IF q = key THEN val ELSE d[q]]

DictDel(d, key) == [q \in DOMAIN d \ {DictKey(d, key)} |-> d[q]]

\* row.get(col): None when the row has no such key.
RowGet(row, col) == IF col \in DOMAIN row THEN row[col] ELSE PyNone

(***************************************************************************)
(* Results.  raised = "" for a returned result dictionary; otherwise the   *)
(* call did not return and raised names the exception that propagated.     *)
(***************************************************************************)
Result(success, message, arg, n, columns, data) ==
    [raised |-> "", success |-> success, message |-> message, arg |-> arg, n |-> n,
     columns |-> columns, data |-> data]

Fail(message, arg) == Result(FALSE, message, arg, 0, <<>>, <<>>)

Done(message, arg, n) == Result(TRUE, message, arg, n, <<>>, <<>>)

Raised(exc) ==
    [raised |-> exc, success |-> FALSE, message |-> "", arg |-> NoText, n |-> 0,
     columns |-> <<>>, data |-> <<>>]

\* What a table operation yields: the table afterwards and the result.
Out(t, r) == [t |-> t, r |-> r]

(***************************************************************************)
(* src/src/table.py: Table.                                                *)
(***************************************************************************)
Table(name, columns, primary_key, unique_columns) ==
    [name |-> name, columns |-> columns, primary_key |-> primary_key,
     unique_columns |-> Range(unique_columns),
     rows |-> <<>>,
     primary_index |-> EmptyDict,
     unique_indexes |-> [col \in Range(unique_columns) |-> EmptyDict]]

column_names(table) == [i \in DOMAIN table.columns |-> table.columns[i][1]]

\* self.column_types[col]: the type of the last column declared under that name.
column_types(table, col) ==
    table.columns[CHOOSE i \in DOMAIN table.columns :
                      /\ table.columns[i][1] = col
                      /\ \A j \in DOMAIN table.columns : table.columns[j][1] = col => j <= i][2]

\* The highest serial of the NaN objects a table holds, in its rows and as
\* index keys; 0 when it holds no NaN.
LastSerial(table) ==
    LET held == UNION {Range(table.rows[i]) : i \in DOMAIN table.rows}
                \cup DOMAIN table.primary_index
                \cup UNION {DOMAIN table.unique_indexes[col] : col \in DOMAIN table.unique_indexes}
    IN  Max({v.n : v \in {h \in held : h.k = "nan"}} \cup {0})

\* A value as an operation stores it: a NaN just made by float() gets the given
\* serial; any other value, a NaN object the caller passed included, is stored
\* as it is (float() of a float returns that float).
Placed(v, serial) == IF v.k = "nan" /\ v.n = 0 THEN PyNan(serial) ELSE v

\* Positions (from 0) of the rows whose where_col equals where_val, ascending.
RECURSIVE MatchingFrom(_, _, _, _)
MatchingFrom(rows, where_col, where_val, i) ==
    IF i > Len(rows) THEN <<>>
    ELSE (IF PyEq(RowGet(rows[i], where_col), where_val) THEN <<i - 1>> ELSE <<>>)
         \o MatchingFrom(rows, where_col, where_val, i + 1)

Matching(rows, where) == MatchingFrom(rows, where.column, where.value, 1)

\* InsertChecked with row_index read after the append instead of before it.
InsertChecked_IndexAfterAppend(table, row) ==
    IF table.primary_key \notin DOMAIN row THEN Out(table, Raised("KeyError"))
    ELSE
    LET pk_value == row[table.primary_key]
        row_index == Len(table.rows) + 1
    IN  IF DictHas(table.primary_index, pk_value)
        THEN Out(table, Fail("Primary key violation", NoText))
        ELSE IF ~(table.unique_columns \subseteq DOMAIN row)
        THEN Out(table, Raised("KeyError"))
        ELSE IF \E col \in table.unique_columns :
                    DictHas(table.unique_indexes[col], row[col])
        THEN Out(table, Fail("Unique constraint violation", NoText))
        ELSE Out([table EXCEPT
                    !.rows = Append(@, row),
                    !.primary_index = DictSet(@, pk_value, row_index),
                    !.unique_indexes =
                        [col \in table.unique_columns |->
                            DictSet(@[col], row[col], row_index)]],
                 Done("Inserted 1 row", NoText, 1))

\* InsertChecked with the row appended and the primary index updated before
\* the unique check instead of after it.
InsertChecked_AppendFirst(table, row) ==
    IF table.primary_key \notin DOMAIN row THEN Out(table, Raised("KeyError"))
    ELSE
    LET pk_value == row[table.primary_key]
        row_index == Len(table.rows)
        appended == [table EXCEPT !.rows = Append(@, row),
                                  !.primary_index = DictSet(@, pk_value, row_index)]
    IN  IF DictHas(table.primary_index, pk_value)
        THEN Out(table, Fail("Primary key violation", NoText))
        ELSE IF ~(table.unique_columns \subseteq DOMAIN row)
        THEN Out(table, Raised("KeyError"))
        ELSE IF \E col \in table.unique_columns :
                    DictHas(table.unique_indexes[col], row[col])
        THEN Out(appended, Fail("Unique constraint violation", NoText))
        ELSE Out([appended EXCEPT
                    !.unique_indexes =
                        [col \in table.unique_columns |->
                            DictSet(@[col], row[col], row_index)]],
                 Done("Inserted 1 row", NoText, 1))

\* Table.insert from the primary-key check on: the constraint checks, then the
\* append and the index updates.
InsertChecked(table, row) ==
    IF table.primary_key \notin DOMAIN row THEN Out(table, Raised("KeyError"))
    ELSE
    LET pk_value == row[table.primary_key]
        row_index == Len(table.rows)
    IN  IF DictHas(table.primary_index, pk_value)
        THEN Out(table, Fail("Primary key violation", NoText))
        ELSE IF ~(table.unique_columns \subseteq DOMAIN row)
        THEN Out(table, Raised("KeyError"))
        ELSE IF \E col \in table.unique_columns :
                    DictHas(table.unique_indexes[col], row[col])
        THEN Out(table, Fail("Unique constraint violation", NoText))
        ELSE Out([table EXCEPT
                    !.rows = Append(@, row),
                    !.primary_index = DictSet(@, pk_value, row_index),
                    !.unique_indexes =
                        [col \in table.unique_columns |->
                            DictSet(@[col], row[col], row_index)]],
                 Done("Inserted 1 row", NoText, 1))

Table_insert(table, values) ==
    IF Len(values) # Len(table.columns)
    THEN Out(table, Fail("Expected values", NoText))
    ELSE
    LET names == column_names(table)
        conv == [i \in DOMAIN table.columns |-> convert_value(values[i], table.columns[i][2])]
        bad == {i \in DOMAIN conv : conv[i].st # "ok"}
    IN  IF bad # {}
        THEN (IF conv[Min(bad)].st = "ValueError"
              THEN Out(table, Fail("Type error for column", names[Min(bad)]))
              ELSE Out(table, Raised(conv[Min(bad)].st)))
        ELSE InsertChecked(table,
                [col \in Range(names) |->
                    LET i == Max({j \in DOMAIN names : names[j] = col}) IN
                    Placed(conv[i].v,
                           Max({LastSerial(table)}
                               \cup {values[q].n : q \in {p \in DOMAIN values : values[p].k = "nan"}})
                           + i)])

(***************************************************************************)
(* Table.insert, statement by statement, for calls that run at the same    *)
(* time.  A frame holds the locals of one call: pc (the statement it is at),*)
(* row, row_index and, once it has returned, ret.  checked_primary and     *)
(* checked_all record whether the call passed its primary-key check, and    *)
(* all its checks, while no call had yet appended; appended records that it *)
(* has appended its row.                                                    *)
(***************************************************************************)
IdleFrame ==
    [pc |-> "idle", row |-> EmptyDict, row_index |-> 0, ret |-> Raised(""),
     checked_primary |-> FALSE, checked_all |-> FALSE, appended |-> FALSE]

Returned(frame, ret) == [frame EXCEPT !.pc = "returned", !.ret = ret]

\* Lines 63-79: the count test and the conversions; they read only the schema.
\* The NaN objects made by the conversions get serials above last_serial and
\* above those of the NaN objects passed in values.
InsertConvert(table, values, last_serial) ==
    IF Len(values) # Len(table.columns)
    THEN Returned(IdleFrame, Fail("Expected values", NoText))
    ELSE
    LET names == column_names(table)
        conv == [i \in DOMAIN table.columns |-> convert_value(values[i], table.columns[i][2])]
        bad == {i \in DOMAIN conv : conv[i].st # "ok"}
    IN  IF bad # {}
        THEN (IF conv[Min(bad)].st = "ValueError"
              THEN Returned(IdleFrame, Fail("Type error for column", names[Min(bad)]))
              ELSE Returned(IdleFrame, Raised(conv[Min(bad)].st)))
        ELSE [IdleFrame EXCEPT
                 !.pc = "check_primary",
                 !.row = [col \in Range(names) |->
                             LET i == Max({j \in DOMAIN names : names[j] = col}) IN
                             Placed(conv[i].v,
                                    Max({last_serial}
                                        \cup {values[q].n : q \in {p \in DOMAIN values :
                                                                      values[p].k = "nan"}})
                                    + i)]]

\* Lines 82-87: if pk_value in self.primary_index: return the violation.
InsertCheckPrimary(table, frame) ==
    IF DictHas(table.primary_index, frame.row[table.primary_key])
    THEN Returned(frame, Fail("Primary key violation", NoText))
    ELSE [frame EXCEPT !.pc = "check_unique"]

\* Lines 90-96: the loop over unique_columns.
InsertCheckUnique(table, frame) ==
    IF \E col \in table.unique_columns : DictHas(table.unique_indexes[col], frame.row[col])
    THEN Returned(frame, Fail("Unique constraint violation", NoText))
    ELSE [frame EXCEPT !.pc = "row_index"]

\* Line 99: row_index = len(self.rows)
InsertRowIndex(table, frame) == [frame EXCEPT !.pc = "append", !.row_index = Len(table.rows)]

\* The append looking at the stored rows first: a row whose key is already
\* stored is not appended.
InsertAppend_Guarded(table, frame) ==
    IF \E i \in DOMAIN table.rows :
           PyEq(table.rows[i][table.primary_key], frame.row[table.primary_key])
    THEN table
    ELSE [table EXCEPT !.rows = Append(@, frame.row)]

\* Line 100: self.rows.append(row)
InsertAppend(table, frame) == [table EXCEPT !.rows = Append(@, frame.row)]

\* Line 103: self.primary_index[pk_value] = row_index
InsertSetPrimary(table, frame) ==
    [table EXCEPT !.primary_index = DictSet(@, frame.row[table.primary_key], frame.row_index)]

\* Lines 106-107: self.unique_indexes[col][row[col]] = row_index for each unique column.
InsertSetUnique(table, frame) ==
    [table EXCEPT !.unique_indexes =
        [col \in table.unique_columns |-> DictSet(@[col], frame.row[col], frame.row_index)]]

\* Table.select answering with the declared columns whatever list is requested.
Table_select_DeclaredColumns(table, columns, where) ==
    LET cols == column_names(table)
        project(rows) == [i \in DOMAIN rows |-> [j \in DOMAIN cols |-> RowGet(rows[i], cols[j])]]
        selected(rows) == Result(TRUE, "Selected", NoText, Len(rows), cols, project(rows))
    IN  IF where.present
        THEN IF where.column = table.primary_key
             THEN IF DictHas(table.primary_index, where.value)
                  THEN LET row_idx == DictGet(table.primary_index, where.value) IN
                       IF row_idx < Len(table.rows)
                       THEN Out(table, selected(<<table.rows[row_idx + 1]>>))
                       ELSE Out(table, Raised("IndexError"))
                  ELSE Out(table, selected(<<>>))
             ELSE LET m == Matching(table.rows, where) IN
                  Out(table, selected([i \in DOMAIN m |-> table.rows[m[i] + 1]]))
        ELSE Out(table, selected(table.rows))

Table_select(table, columns, where) ==
    LET cols == IF columns = <<>> \/ columns = << <<"*">> >>
                THEN column_names(table) ELSE columns
        project(rows) == [i \in DOMAIN rows |-> [j \in DOMAIN cols |-> RowGet(rows[i], cols[j])]]
        selected(rows) == Result(TRUE, "Selected", NoText, Len(rows), cols, project(rows))
    IN  IF where.present
        THEN IF where.column = table.primary_key
             THEN IF DictHas(table.primary_index, where.value)
                  THEN LET row_idx == DictGet(table.primary_index, where.value) IN
                       IF row_idx < Len(table.rows)
                       THEN Out(table, selected(<<table.rows[row_idx + 1]>>))
                       ELSE Out(table, Raised("IndexError"))
                  ELSE Out(table, selected(<<>>))
             ELSE LET m == Matching(table.rows, where) IN
                  Out(table, selected([i \in DOMAIN m |-> table.rows[m[i] + 1]]))
        ELSE Out(table, selected(table.rows))

\* The update loops leaving after the first matching row.
RECURSIVE UpdateLoop_FirstRowOnly(_, _, _, _, _, _)
UpdateLoop_FirstRowOnly(table, rows, rows_to_update, set_values, i, j) ==
    IF i > Len(rows_to_update) \/ i > 1 THEN [rows |-> rows, st |-> "ok"]
    ELSE IF j > Len(set_values)
    THEN UpdateLoop_FirstRowOnly(table, rows, rows_to_update, set_values, i + 1, 1)
    ELSE LET col == set_values[j][1]
             new_val == set_values[j][2]
             idx == rows_to_update[i]
             serial == Max({LastSerial(table)}
                           \cup {set_values[q][2].n :
                                    q \in {p \in DOMAIN set_values : set_values[p][2].k = "nan"}})
                       + (IF new_val.k = "nan" THEN j ELSE Len(set_values) * i + j)
         IN  IF col \in Range(column_names(table))
             THEN LET converted == convert_value(new_val, column_types(table, col)) IN
                  IF converted.st = "ok"
                  THEN UpdateLoop_FirstRowOnly(table, [rows EXCEPT ![idx + 1][col] = Placed(converted.v, serial)],
                                               rows_to_update, set_values, i, j + 1)
                  ELSE [rows |-> rows, st |-> converted.st]
             ELSE UpdateLoop_FirstRowOnly(table, rows, rows_to_update, set_values, i, j + 1)

\* UpdateLoop without the test 'col in self.column_names': a SET value for an
\* undeclared column is stored in the row as written.
RECURSIVE UpdateLoop_AssignsUnknown(_, _, _, _, _, _)
UpdateLoop_AssignsUnknown(table, rows, rows_to_update, set_values, i, j) ==
    IF i > Len(rows_to_update) THEN [rows |-> rows, st |-> "ok"]
    ELSE IF j > Len(set_values)
    THEN UpdateLoop_AssignsUnknown(table, rows, rows_to_update, set_values, i + 1, 1)
    ELSE LET col == set_values[j][1]
             new_val == set_values[j][2]
             idx == rows_to_update[i]
             serial == Max({LastSerial(table)}
                           \cup {set_values[q][2].n :
                                    q \in {p \in DOMAIN set_values : set_values[p][2].k = "nan"}})
                       + (IF new_val.k = "nan" THEN j ELSE Len(set_values) * i + j)
         IN  IF col \in Range(column_names(table))
             THEN LET converted == convert_value(new_val, column_types(table, col)) IN
                  IF converted.st = "ok"
                  THEN UpdateLoop_AssignsUnknown(table,
                                                 [rows EXCEPT ![idx + 1][col] = Placed(converted.v, serial)],
                                                 rows_to_update, set_values, i, j + 1)
                  ELSE [rows |-> rows, st |-> converted.st]
             ELSE UpdateLoop_AssignsUnknown(table,
                                            [rows EXCEPT ![idx + 1] = (col :> new_val) @@ @],
                                            rows_to_update, set_values, i, j + 1)

\* UpdateLoop restoring the rows it was given when a conversion fails.
RECURSIVE UpdateLoop_RollsBack(_, _, _, _, _, _)
UpdateLoop_RollsBack(table, rows, rows_to_update, set_values, i, j) ==
    IF i > Len(rows_to_update) THEN [rows |-> rows, st |-> "ok"]
    ELSE IF j > Len(set_values)
    THEN UpdateLoop_RollsBack(table, rows, rows_to_update, set_values, i + 1, 1)
    ELSE LET col == set_values[j][1]
             new_val == set_values[j][2]
             idx == rows_to_update[i]
             serial == Max({LastSerial(table)}
                           \cup {set_values[q][2].n :
                                    q \in {p \in DOMAIN set_values : set_values[p][2].k = "nan"}})
                       + (IF new_val.k = "nan" THEN j ELSE Len(set_values) * i + j)
         IN  IF col \in Range(column_names(table))
             THEN LET converted == convert_value(new_val, column_types(table, col)) IN
                  IF converted.st = "ok"
                  THEN UpdateLoop_RollsBack(table, [rows EXCEPT ![idx + 1][col] = Placed(converted.v, serial)],
                                            rows_to_update, set_values, i, j + 1)
                  ELSE [rows |-> table.rows, st |-> converted.st]
             ELSE UpdateLoop_RollsBack(table, rows, rows_to_update, set_values, i, j + 1)

\* The nested loops of Table.update over rows_to_update (position i) and the
\* items of set_values (position j); st = "ok" until a conversion raises.
\* A SET value that is a NaN is the same object in every row it is assigned
\* to (float() returns a float as it is); a NaN converted from a text is a
\* new object at each conversion, with a serial no held or passed NaN has.
RECURSIVE UpdateLoop(_, _, _, _, _, _)
UpdateLoop(table, rows, rows_to_update, set_values, i, j) ==
    IF i > Len(rows_to_update) THEN [rows |-> rows, st |-> "ok"]
    ELSE IF j > Len(set_values) THEN UpdateLoop(table, rows, rows_to_update, set_values, i + 1, 1)
    ELSE LET col == set_values[j][1]
             new_val == set_values[j][2]
             idx == rows_to_update[i]
             serial == Max({LastSerial(table)}
                           \cup {set_values[q][2].n :
                                    q \in {p \in DOMAIN set_values : set_values[p][2].k = "nan"}})
                       + (IF new_val.k = "nan" THEN j ELSE Len(set_values) * i + j)
         IN  IF col \in Range(column_names(table))
             THEN LET converted == convert_value(new_val, column_types(table, col)) IN
                  IF converted.st = "ok"
                  THEN UpdateLoop(table, [rows EXCEPT ![idx + 1][col] = Placed(converted.v, serial)],
                                  rows_to_update, set_values, i, j + 1)
                  ELSE [rows |-> rows, st |-> converted.st]
             ELSE UpdateLoop(table, rows, rows_to_update, set_values, i, j + 1)

Table_update(table, set_values, where) ==
    IF ~where.present
    THEN Out(table, Fail("UPDATE without WHERE clause is not supported", NoText))
    ELSE LET rows_to_update == Matching(table.rows, where) IN
         IF rows_to_update = <<>> THEN Out(table, Done("Updated", NoText, 0))
         ELSE LET u == UpdateLoop(table, table.rows, rows_to_update, set_values, 1, 1)
                  after == [table EXCEPT !.rows = u.rows]
              IN  IF u.st = "ok" THEN Out(after, Done("Updated", NoText, Len(rows_to_update)))
                  ELSE IF u.st = "ValueError" THEN Out(after, Fail("Type error", NoText))
                  ELSE Out(after, Raised(u.st))

\* _rebuild_indexes that leaves the indexes as the removal loop left them.
_rebuild_indexes_Skipped(table) == table

\* Table._rebuild_indexes: both kinds of index cleared, then one assignment
\* per row in storage order.
RECURSIVE IndexOfRows(_, _, _, _)
IndexOfRows(rows, col, i, d) ==
    IF i > Len(rows) THEN d
    ELSE IndexOfRows(rows, col, i + 1, DictSet(d, rows[i][col], i - 1))

_rebuild_indexes(table) ==
    [table EXCEPT
        !.primary_index = IndexOfRows(table.rows, table.primary_key, 1, EmptyDict),
        !.unique_indexes = [col \in table.unique_columns |->
                               IndexOfRows(table.rows, col, 1, EmptyDict)]]

\* The removal loop filling the gap with the last row instead of shifting the
\* rows behind it.
RECURSIVE DeleteLoop_SwapRemove(_, _, _)
DeleteLoop_SwapRemove(table, rows_to_delete, i) ==
    IF i < 1 THEN table
    ELSE LET idx == rows_to_delete[i]
             row == table.rows[idx + 1]
             popped == [table EXCEPT
                           !.rows = [p \in 1..(Len(@) - 1) |->
                                        IF p = idx + 1 THEN @[Len(@)] ELSE @[p]]]
             pk_val == row[table.primary_key]
         IN  DeleteLoop_SwapRemove(
                [popped EXCEPT
                    !.primary_index = IF DictHas(@, pk_val) THEN DictDel(@, pk_val) ELSE @,
                    !.unique_indexes =
                        [col \in table.unique_columns |->
                            IF DictHas(@[col], row[col]) THEN DictDel(@[col], row[col])
                            ELSE @[col]]],
                rows_to_delete, i - 1)

\* The removal loop of Table.delete: positions popped in descending order, the
\* popped row's values deleted from the indexes when present.
RECURSIVE DeleteLoop(_, _, _)
DeleteLoop(table, rows_to_delete, i) ==
    IF i < 1 THEN table
    ELSE LET idx == rows_to_delete[i]
             row == table.rows[idx + 1]
             popped == [table EXCEPT
                           !.rows = SubSeq(@, 1, idx) \o SubSeq(@, idx + 2, Len(@))]
             pk_val == row[table.primary_key]
         IN  DeleteLoop(
                [popped EXCEPT
                    !.primary_index = IF DictHas(@, pk_val) THEN DictDel(@, pk_val) ELSE @,
                    !.unique_indexes =
                        [col \in table.unique_columns |->
                            IF DictHas(@[col], row[col]) THEN DictDel(@[col], row[col])
                            ELSE @[col]]],
                rows_to_delete, i - 1)

\* Table.delete without the guard on where: no predicate matches every row.
Table_delete_Unguarded(table, where) ==
    LET rows_to_delete == IF where.present THEN Matching(table.rows, where)
                          ELSE [i \in DOMAIN table.rows |-> i - 1]
    IN  IF rows_to_delete = <<>> THEN Out(table, Done("Deleted", NoText, 0))
        ELSE Out(_rebuild_indexes(DeleteLoop(table, rows_to_delete, Len(rows_to_delete))),
                 Done("Deleted", NoText, Len(rows_to_delete)))

\* Table.delete removing the rows from storage and leaving the indexes as they were.
Table_delete_KeepsIndexes(table, where) ==
    IF ~where.present
    THEN Out(table, Fail("DELETE without WHERE clause is not supported", NoText))
    ELSE LET rows_to_delete == Matching(table.rows, where) IN
         IF rows_to_delete = <<>> THEN Out(table, Done("Deleted", NoText, 0))
         ELSE Out([table EXCEPT
                      !.rows = DeleteLoop(table, rows_to_delete, Len(rows_to_delete)).rows],
                  Done("Deleted", NoText, Len(rows_to_delete)))

Table_delete(table, where) ==
    IF ~where.present
    THEN Out(table, Fail("DELETE without WHERE clause is not supported", NoText))
    ELSE LET rows_to_delete == Matching(table.rows, where) IN
         IF rows_to_delete = <<>> THEN Out(table, Done("Deleted", NoText, 0))
         ELSE Out(_rebuild_indexes(DeleteLoop(table, rows_to_delete, Len(rows_to_delete))),
                  Done("Deleted", NoText, Len(rows_to_delete)))

(***************************************************************************)
(* src/src/database.py: SimpleDB.  tables maps a table name to its Table.  *)
(***************************************************************************)
VARIABLES tables, result, last, calls

vars == <<tables, result, last, calls>>

\* What an operation of the database yields: the tables afterwards and the result.
DbOut(T, r) == [T |-> T, r |-> r]

\* OnTable with one row list shared by all tables: the rows the operation
\* leaves are seen through every registered table.
OnTable_SharedRows(T, name, out) ==
    DbOut([n \in DOMAIN T |-> IF n = name THEN out.t ELSE [T[n] EXCEPT !.rows = out.t.rows]],
          out.r)

\* Run a table operation on the named table and store the table it leaves.
OnTable(T, name, out) == DbOut([T EXCEPT ![name] = out.t], out.r)

\* create_table without the check for a registered name: the new table replaces it.
create_table_Overwrites(T, name, columns, primary_key, unique_columns) ==
    IF primary_key \notin {columns[i][1] : i \in DOMAIN columns}
    THEN DbOut(T, Fail("Primary key not found in columns", primary_key))
    ELSE DbOut([n \in DOMAIN T \cup {name} |->
                   IF n = name THEN Table(name, columns, primary_key, unique_columns)
                   ELSE T[n]],
               Done("Table created successfully", name, 0))

create_table(T, name, columns, primary_key, unique_columns) ==
    IF name \in DOMAIN T THEN DbOut(T, Fail("Table already exists", name))
    ELSE IF primary_key \notin {columns[i][1] : i \in DOMAIN columns}
    THEN DbOut(T, Fail("Primary key not found in columns", primary_key))
    ELSE DbOut([n \in DOMAIN T \cup {name} |->
                   IF n = name THEN Table(name, columns, primary_key, unique_columns)
                   ELSE T[n]],
               Done("Table created successfully", name, 0))

_handle_create_table(T, parsed) ==
    create_table(T, parsed.table_name, parsed.columns, parsed.primary_key,
                 parsed.unique_columns)

_handle_insert(T, parsed) ==
    IF parsed.table_name \notin DOMAIN T
    THEN DbOut(T, Fail("Table does not exist", parsed.table_name))
    ELSE OnTable(T, parsed.table_name, Table_insert(T[parsed.table_name], parsed.values))

\* _handle_select handing out the stored rows and leaving the table without them.
_handle_select_Consumes(T, parsed) ==
    IF parsed.table_name \notin DOMAIN T
    THEN DbOut(T, Fail("Table does not exist", parsed.table_name))
    ELSE LET out == Table_select(T[parsed.table_name], parsed.columns, parsed.where) IN
         OnTable(T, parsed.table_name, Out([out.t EXCEPT !.rows = <<>>], out.r))

_handle_select(T, parsed) ==
    IF parsed.table_name \notin DOMAIN T
    THEN DbOut(T, Fail("Table does not exist", parsed.table_name))
    ELSE OnTable(T, parsed.table_name,
                 Table_select(T[parsed.table_name], parsed.columns, parsed.where))

PrefixedColumns(table_name, table) ==
    [i \in DOMAIN table.columns |-> Prefixed(table_name, table.columns[i][1])]

\* merged_row: the left row's entries, then the right row's, each under its
\* prefixed key (a later assignment to the same key replaces the earlier one).
MergedRow(left_name, left_table, left_row, right_name, right_table, right_row) ==
    LET lkeys == Range(PrefixedColumns(left_name, left_table))
        rkeys == Range(PrefixedColumns(right_name, right_table))
        colOf(tn, t, key) == CHOOSE c \in Range(column_names(t)) : Prefixed(tn, c) = key
    IN  [key \in lkeys \cup rkeys |->
            IF key \in rkeys THEN right_row[colOf(right_name, right_table, key)]
            ELSE left_row[colOf(left_name, left_table, key)]]

\* The join loop leaving the inner loop at the first matching right row.
RECURSIVE JoinLoop_FirstMatch(_, _, _, _, _, _, _, _)
JoinLoop_FirstMatch(left_name, left_table, left_col, right_name, right_table, right_col, i, j) ==
    IF i > Len(left_table.rows) THEN <<>>
    ELSE IF j > Len(right_table.rows)
    THEN JoinLoop_FirstMatch(left_name, left_table, left_col, right_name, right_table,
                             right_col, i + 1, 1)
    ELSE IF PyEq(left_table.rows[i][left_col], right_table.rows[j][right_col])
    THEN << MergedRow(left_name, left_table, left_table.rows[i],
                      right_name, right_table, right_table.rows[j]) >>
         \o JoinLoop_FirstMatch(left_name, left_table, left_col, right_name, right_table,
                                right_col, i + 1, 1)
    ELSE JoinLoop_FirstMatch(left_name, left_table, left_col, right_name, right_table,
                             right_col, i, j + 1)

\* The join loop with the right rows (j) outermost and the left rows (i) inside.
RECURSIVE JoinLoop_RightMajor(_, _, _, _, _, _, _, _)
JoinLoop_RightMajor(left_name, left_table, left_col, right_name, right_table, right_col, i, j) ==
    IF j > Len(right_table.rows) THEN <<>>
    ELSE IF i > Len(left_table.rows)
    THEN JoinLoop_RightMajor(left_name, left_table, left_col, right_name, right_table,
                             right_col, 1, j + 1)
    ELSE (IF PyEq(left_table.rows[i][left_col], right_table.rows[j][right_col])
          THEN << MergedRow(left_name, left_table, left_table.rows[i],
                            right_name, right_table, right_table.rows[j]) >>
          ELSE <<>>)
         \o JoinLoop_RightMajor(left_name, left_table, left_col, right_name, right_table,
                                right_col, i + 1, j)

\* The nested loop of the join: left rows (i) outermost, right rows (j) inside.
RECURSIVE JoinLoop(_, _, _, _, _, _, _, _)
JoinLoop(left_name, left_table, left_col, right_name, right_table, right_col, i, j) ==
    IF i > Len(left_table.rows) THEN <<>>
    ELSE IF j > Len(right_table.rows)
    THEN JoinLoop(left_name, left_table, left_col, right_name, right_table, right_col, i + 1, 1)
    ELSE (IF PyEq(left_table.rows[i][left_col], right_table.rows[j][right_col])
          THEN << MergedRow(left_name, left_table, left_table.rows[i],
                            right_name, right_table, right_table.rows[j]) >>
          ELSE <<>>)
         \o JoinLoop(left_name, left_table, left_col, right_name, right_table, right_col,
                     i, j + 1)

\* The merged rows whose where column equals the where value, in order.
RECURSIVE FilterRows(_, _, _)
FilterRows(rows, where, i) ==
    IF i > Len(rows) THEN <<>>
    ELSE (IF PyEq(RowGet(rows[i], where.column), where.value) THEN <<rows[i]>> ELSE <<>>)
         \o FilterRows(rows, where, i + 1)

\* _handle_select_join looking up the right table before the left one.
_handle_select_join_RightFirst(T, parsed) ==
    IF parsed.right_table \notin DOMAIN T
    THEN DbOut(T, Fail("Table does not exist", parsed.right_table))
    ELSE IF parsed.table_name \notin DOMAIN T
    THEN DbOut(T, Fail("Table does not exist", parsed.table_name))
    ELSE
    LET left_table == T[parsed.table_name]
        right_table == T[parsed.right_table]
        left_col == parsed.join_condition[2]
        right_col == parsed.join_condition[4]
    IN  IF left_col \notin Range(column_names(left_table))
        THEN DbOut(T, Fail("Column not found in table", left_col))
        ELSE IF right_col \notin Range(column_names(right_table))
        THEN DbOut(T, Fail("Column not found in table", right_col))
        ELSE
        LET matched == JoinLoop(parsed.table_name, left_table, left_col,
                                parsed.right_table, right_table, right_col, 1, 1)
            joined_rows == IF parsed.where.present THEN FilterRows(matched, parsed.where, 1)
                           ELSE matched
            output_columns ==
                IF parsed.columns = << <<"*">> >>
                THEN PrefixedColumns(parsed.table_name, left_table)
                     \o PrefixedColumns(parsed.right_table, right_table)
                ELSE parsed.columns
        IN  DbOut(T, Result(TRUE, "Selected from JOIN", NoText, Len(joined_rows),
                            output_columns,
                            [i \in DOMAIN joined_rows |->
                                [j \in DOMAIN output_columns |->
                                    RowGet(joined_rows[i], output_columns[j])]]))

_handle_select_join(T, parsed) ==
    IF parsed.table_name \notin DOMAIN T
    THEN DbOut(T, Fail("Table does not exist", parsed.table_name))
    ELSE IF parsed.right_table \notin DOMAIN T
    THEN DbOut(T, Fail("Table does not exist", parsed.right_table))
    ELSE
    LET left_table == T[parsed.table_name]
        right_table == T[parsed.right_table]
        left_col == parsed.join_condition[2]
        right_col == parsed.join_condition[4]
    IN  IF left_col \notin Range(column_names(left_table))
        THEN DbOut(T, Fail("Column not found in table", left_col))
        ELSE IF right_col \notin Range(column_names(right_table))
        THEN DbOut(T, Fail("Column not found in table", right_col))
        ELSE
        LET matched == JoinLoop(parsed.table_name, left_table, left_col,
                                parsed.right_table, right_table, right_col, 1, 1)
            joined_rows == IF parsed.where.present THEN FilterRows(matched, parsed.where, 1)
                           ELSE matched
            output_columns ==
                IF parsed.columns = << <<"*">> >>
                THEN PrefixedColumns(parsed.table_name, left_table)
                     \o PrefixedColumns(parsed.right_table, right_table)
                ELSE parsed.columns
        IN  DbOut(T, Result(TRUE, "Selected from JOIN", NoText, Len(joined_rows),
                            output_columns,
                            [i \in DOMAIN joined_rows |->
                                [j \in DOMAIN output_columns |->
                                    RowGet(joined_rows[i], output_columns[j])]]))

\* _handle_update without the lookup check: the missing table is None, and
\* calling update on it raises.
_handle_update_Unchecked(T, parsed) ==
    IF parsed.table_name \notin DOMAIN T
    THEN DbOut(T, Raised("AttributeError"))
    ELSE OnTable(T, parsed.table_name,
                 Table_update(T[parsed.table_name], parsed.set_values, parsed.where))

\* _handle_update rebuilding the table's indexes from its rows after the update.
_handle_update_Reindexes(T, parsed) ==
    IF parsed.table_name \notin DOMAIN T
    THEN DbOut(T, Fail("Table does not exist", parsed.table_name))
    ELSE LET out == Table_update(T[parsed.table_name], parsed.set_values, parsed.where) IN
         OnTable(T, parsed.table_name, Out(_rebuild_indexes(out.t), out.r))

_handle_update(T, parsed) ==
    IF parsed.table_name \notin DOMAIN T
    THEN DbOut(T, Fail("Table does not exist", parsed.table_name))
    ELSE OnTable(T, parsed.table_name,
                 Table_update(T[parsed.table_name], parsed.set_values, parsed.where))

\* _handle_delete unregistering a table that the delete left without rows.
_handle_delete_DropsEmptied(T, parsed) ==
    IF parsed.table_name \notin DOMAIN T
    THEN DbOut(T, Fail("Table does not exist", parsed.table_name))
    ELSE LET out == OnTable(T, parsed.table_name,
                            Table_delete(T[parsed.table_name], parsed.where))
         IN  IF out.r.n > 0 /\ out.T[parsed.table_name].rows = <<>>
             THEN DbOut([n \in DOMAIN T \ {parsed.table_name} |-> out.T[n]], out.r)
             ELSE out

_handle_delete(T, parsed) ==
    IF parsed.table_name \notin DOMAIN T
    THEN DbOut(T, Fail("Table does not exist", parsed.table_name))
    ELSE OnTable(T, parsed.table_name, Table_delete(T[parsed.table_name], parsed.where))

\* The routing of execute, before its exception handler.
Dispatch(T, parsed) ==
    CASE parsed.type = "CREATE_TABLE" -> _handle_create_table(T, parsed)
      [] parsed.type = "INSERT" -> _handle_insert(T, parsed)
      [] parsed.type = "SELECT" -> _handle_select(T, parsed)
      [] parsed.type = "SELECT_JOIN" -> _handle_select_join(T, parsed)
      [] parsed.type = "UPDATE" -> _handle_update(T, parsed)
      [] parsed.type = "DELETE" -> _handle_delete(T, parsed)
      [] OTHER -> DbOut(T, Fail("Unsupported query type", NoText))

\* execute without its exception handler.
CatchAll_Missing(out) == out

\* except Exception: whatever a handler raised becomes a failure result; the
\* mutations made before the exception stay.
CatchAll(out) ==
    IF out.r.raised # "" THEN DbOut(out.T, Fail("Error executing query", NoText)) ELSE out

execute(T, query) ==
    LET Run(parsed) ==
            IF ~parsed.success THEN DbOut(T, Fail(parsed.message, NoText))
            ELSE CatchAll(Dispatch(T, parsed))
    IN  Run(parser_parse(query))

(***************************************************************************)
(* src/web_app/app.py: edit_record and delete_record (POST).  pk_value is   *)
(* the text of the URL segment; form maps the submitted field names to     *)
(* their values (None for a missing field).                                *)
(***************************************************************************)
\* set_values of edit_record: one item per non-primary column, in column order.
RECURSIVE FormSetValues(_, _, _, _)
FormSetValues(table, form, i, set_values) ==
    IF i > Len(table.columns) THEN set_values
    ELSE LET col_name == table.columns[i][1] IN
         FormSetValues(table, form, i + 1,
                       IF col_name # table.primary_key
                       THEN SetItem(set_values, col_name, RowGet(form, col_name))
                       ELSE set_values)

edit_record(T, table_name, pk_value, form) ==
    IF table_name \notin DOMAIN T THEN DbOut(T, Fail("Table not found", table_name))
    ELSE LET table == T[table_name]
             pk_type == column_types(table, table.primary_key)
             key == IF pk_type = INT THEN ToInt(PyStr(pk_value)) ELSE Ok(PyStr(pk_value))
         IN  IF key.st # "ok" THEN DbOut(T, Fail("Invalid primary key value", NoText))
             ELSE OnTable(T, table_name,
                          Table_update(table, FormSetValues(table, form, 1, <<>>),
                                       Where(table.primary_key, key.v)))

\* delete_record (POST): the key text converted as in edit_record, then
\* table.delete on the primary key.
delete_record(T, table_name, pk_value) ==
    IF table_name \notin DOMAIN T THEN DbOut(T, Fail("Table not found", table_name))
    ELSE LET table == T[table_name]
             pk_type == column_types(table, table.primary_key)
             key == IF pk_type = INT THEN ToInt(PyStr(pk_value)) ELSE Ok(PyStr(pk_value))
         IN  IF key.st # "ok" THEN DbOut(T, Fail("Invalid primary key value", NoText))
             ELSE OnTable(T, table_name, Table_delete(table, Where(table.primary_key, key.v)))

(***************************************************************************)
(* The state machine.                                                      *)
(***************************************************************************)
MaxRows == 2

EditForms == {(email :> PyStr(Lit1)), (email :> PyStr(LitA)), EmptyDict}

NoResult == Result(TRUE, "", NoText, 0, <<>>, <<>>)

RowsBounded(T) == \A n \in DOMAIN T : Len(T[n].rows) <= MaxRows

\* The callers that may run Table.insert at the same time (request handlers
\* of the web application), none of them in a call.
Callers == {1, 2}

NoCalls == [t \in Callers |-> IdleFrame]

Init ==
    /\ tables = EmptyDict
    /\ result = NoResult
    /\ last = ""
    /\ calls = NoCalls

\* db.execute(query)
Call(query) ==
    LET Returns(out) ==
            /\ RowsBounded(out.T)
            /\ tables' = out.T
            /\ result' = out.r
            /\ last' = query.kw
            /\ UNCHANGED calls
    IN  Returns(execute(tables, query))

ExecCreateTable == \E q \in CreateQueries : Call(q)

ExecInsert == \E q \in InsertQueries : Call(q)

ExecSelect == \E q \in SelectQueries : Call(q)

ExecUpdate == \E q \in UpdateQueries : Call(q)

ExecDelete == \E q \in DeleteQueries : Call(q)

ExecOther == \E q \in OtherQueries : Call(q)

EditRecord ==
    \E pk_value \in {Lit1, LitA}, form \in EditForms :
        LET Returns(out) ==
                /\ tables' = out.T
                /\ result' = out.r
                /\ last' = "edit_record"
                /\ UNCHANGED calls
        IN  Returns(edit_record(tables, users, pk_value, form))

DeleteRecord ==
    \E pk_value \in {Lit1, Lit2, LitA} :
        LET Returns(out) ==
                /\ tables' = out.T
                /\ result' = out.r
                /\ last' = "delete_record"
                /\ UNCHANGED calls
        IN  Returns(delete_record(tables, users, pk_value))

\* db.create_table(name, columns, primary_key, unique_columns), called directly.
ApiColumns == << <<id, INT>>, <<email, TEXT>> >>

CreateTable ==
    \E primary_key \in {id, ghost} :
        LET Returns(out) ==
                /\ tables' = out.T
                /\ result' = out.r
                /\ last' = "create_table"
                /\ UNCHANGED calls
        IN  Returns(create_table(tables, users, ApiColumns, primary_key, <<email>>))

Next ==
    \/ ExecCreateTable
    \/ ExecInsert
    \/ ExecSelect
    \/ ExecUpdate
    \/ ExecDelete
    \/ ExecOther
    \/ EditRecord
    \/ DeleteRecord
    \/ CreateTable

Spec == Init /\ [][Next]_vars

\* Statements on users only, without UPDATE and without the web edit path.
NextInsertDelete ==
    \/ ExecCreateTable
    \/ ExecInsert
    \/ ExecSelect
    \/ ExecDelete
    \/ ExecOther

SpecInsertDelete == Init /\ [][NextInsertDelete]_vars

\* Two tables, users and orders, with INSERT, DELETE and SELECT ... JOIN.
JoinCreateTable == \E q \in JoinCreateQueries : Call(q)

JoinInsert == \E q \in JoinInsertQueries : Call(q)

JoinDelete == \E q \in JoinDeleteQueries : Call(q)

JoinSelect == \E q \in JoinQueries \cup JoinWhereQueries : Call(q)

NextJoin ==
    \/ JoinCreateTable
    \/ JoinInsert
    \/ JoinDelete
    \/ JoinSelect

SpecJoin == Init /\ [][NextJoin]_vars

\* One table users of up to four rows, with INSERT, UPDATE and DELETE.
MaxDeleteRows == 4

\* db.execute(query) while no table holds more than MaxDeleteRows rows.
CallDelete(query) ==
    LET Returns(out) ==
            /\ \A n \in DOMAIN out.T : Len(out.T[n].rows) <= MaxDeleteRows
            /\ tables' = out.T
            /\ result' = out.r
            /\ last' = query.kw
            /\ UNCHANGED calls
    IN  Returns(execute(tables, query))

DeleteCreateTable == \E q \in FourCreateQueries : CallDelete(q)

DeleteInsert == \E q \in FourInsertQueries : CallDelete(q)

DeleteUpdate == \E q \in FourUpdateQueries : CallDelete(q)

DeleteWhere == \E q \in FourDeleteQueries : CallDelete(q)

NextDelete ==
    \/ DeleteCreateTable
    \/ DeleteInsert
    \/ DeleteUpdate
    \/ DeleteWhere

SpecDelete == Init /\ [][NextDelete]_vars

(***************************************************************************)
(* Two request handlers of the web application calling Table.insert on     *)
(* users at the same time (create_record, POST): each step below is one    *)
(* statement of one call, and the steps of the two calls interleave freely.*)
(***************************************************************************)
\* The form of create_record: one text per column, as request.form gives it.
FormValues ==
    {<<PyStr(k), PyStr(v)>> : k \in {Lit1, Lit2, LitA}, v \in {LitA, <<"b">>}}

\* Statements executed before any handler runs.
ThreadsSetup ==
    /\ calls = NoCalls
    /\ \E q \in ThreadsSetupQueries : Call(q)

Frame(t, frame) == [calls EXCEPT ![t] = frame]

NoneAppended == \A u \in Callers : ~calls[u].appended

\* The highest serial among the NaN objects of the table and of the rows the
\* running calls have built.
LastSerialInUse ==
    LET built == UNION {Range(calls[c].row) : c \in Callers} IN
    Max({LastSerial(tables[users])} \cup {v.n : v \in {h \in built : h.k = "nan"}})

\* create_record: table = db.get_table(table_name); values from the form;
\* table.insert(values) up to the end of the conversions.
ThreadBegin ==
    \E t \in Callers, values \in FormValues :
        /\ calls[t].pc = "idle"
        /\ users \in DOMAIN tables
        /\ calls' = Frame(t, InsertConvert(tables[users], values, LastSerialInUse))
        /\ UNCHANGED <<tables, result, last>>

ThreadCheckPrimary ==
    \E t \in Callers :
        /\ calls[t].pc = "check_primary"
        /\ LET frame == InsertCheckPrimary(tables[users], calls[t]) IN
           calls' = Frame(t, [frame EXCEPT
                                 !.checked_primary = frame.pc # "returned" /\ NoneAppended])
        /\ UNCHANGED <<tables, result, last>>

ThreadCheckUnique ==
    \E t \in Callers :
        /\ calls[t].pc = "check_unique"
        /\ LET frame == InsertCheckUnique(tables[users], calls[t]) IN
           calls' = Frame(t, [frame EXCEPT
                                 !.checked_all = frame.pc # "returned" /\ NoneAppended])
        /\ UNCHANGED <<tables, result, last>>

ThreadRowIndex ==
    \E t \in Callers :
        /\ calls[t].pc = "row_index"
        /\ calls' = Frame(t, InsertRowIndex(tables[users], calls[t]))
        /\ UNCHANGED <<tables, result, last>>

ThreadAppend ==
    \E t \in Callers :
        /\ calls[t].pc = "append"
        /\ tables' = [tables EXCEPT ![users] = InsertAppend(@, calls[t])]
        /\ calls' = Frame(t, [calls[t] EXCEPT !.pc = "primary_index", !.appended = TRUE])
        /\ UNCHANGED <<result, last>>

ThreadSetPrimary ==
    \E t \in Callers :
        /\ calls[t].pc = "primary_index"
        /\ tables' = [tables EXCEPT ![users] = InsertSetPrimary(@, calls[t])]
        /\ calls' = Frame(t, [calls[t] EXCEPT !.pc = "unique_indexes"])
        /\ UNCHANGED <<result, last>>

\* The unique indexes are set and the call returns its success result.
ThreadSetUnique ==
    \E t \in Callers :
        /\ calls[t].pc = "unique_indexes"
        /\ tables' = [tables EXCEPT ![users] = InsertSetUnique(@, calls[t])]
        /\ calls' = Frame(t, Returned(calls[t], Done("Inserted 1 row", NoText, 1)))
        /\ UNCHANGED <<result, last>>

NextThreads ==
    \/ ThreadsSetup
    \/ ThreadBegin
    \/ ThreadCheckPrimary
    \/ ThreadCheckUnique
    \/ ThreadRowIndex
    \/ ThreadAppend
    \/ ThreadSetPrimary
    \/ ThreadSetUnique

SpecThreads == Init /\ [][NextThreads]_vars

(***************************************************************************)
(* Properties.                                                             *)
(***************************************************************************)
Indexes(t) == {<<t.primary_key, t.primary_index>>}
              \cup {<<col, t.unique_indexes[col]>> : col \in t.unique_columns}

\* Every row's value of the column is a key that maps to the row's position.
RowsIndexed(t, x) ==
    \A i \in DOMAIN t.rows : DictHas(x[2], t.rows[i][x[1]]) /\ DictGet(x[2], t.rows[i][x[1]]) = i - 1

UsersRows == IF users \in DOMAIN tables THEN tables[users].rows ELSE <<>>

\* C1: after any sequence of INSERT and DELETE statements, the primary index and
\* every unique index of every table have exactly one entry per stored row and
\* map each row's value of the column to the row's current position.
C1_IndexesExactAfterInsertDelete ==
    \A n \in DOMAIN tables : \A x \in Indexes(tables[n]) :
        /\ Cardinality(DOMAIN x[2]) = Len(tables[n].rows)
        /\ RowsIndexed(tables[n], x)

\* A DELETE removed a row and left one behind, whose position may have shifted.
C1_Witness ==
    /\ last = "DELETE FROM" /\ result.message = "Deleted" /\ result.n = 1
    /\ Len(UsersRows) = 1

\* C2: an INSERT that returns success = false leaves the rows and the indexes of
\* every table as they were before the call.
C2_InsertAtomic ==
    [][(last' = "INSERT INTO" /\ ~result'.success) => tables' = tables]_vars

\* An INSERT was refused by the last check before the append, on a table with rows.
C2_Witness ==
    /\ last = "INSERT INTO" /\ result.message = "Unique constraint violation"
    /\ Len(UsersRows) >= 1

\* C3: an UPDATE or DELETE statement whose WHERE is absent, or is a text the
\* parser turns into no predicate, returns success = false and changes no table.
C3_NoPredicateRejected ==
    \A q \in UpdateQueries \cup DeleteQueries :
        ~parser_parse(q).where.present =>
            LET out == execute(tables, q) IN ~out.r.success /\ out.T = tables

\* A DELETE without predicate was refused on a table that has rows.
C3_Witness ==
    /\ last = "DELETE FROM"
    /\ result.message = "DELETE without WHERE clause is not supported"
    /\ Len(UsersRows) >= 1

\* C4: in every state reached by INSERT, UPDATE and DELETE, the primary index and
\* every unique index mirror the column exactly: every row's value is a key
\* mapping to the row's position, and every key is the value of some row.
C4_IndexesBijective ==
    \A n \in DOMAIN tables : \A x \in Indexes(tables[n]) :
        /\ RowsIndexed(tables[n], x)
        /\ \A key \in DOMAIN x[2] :
               \E i \in DOMAIN tables[n].rows : PyEq(tables[n].rows[i][x[1]], key)

\* C5: no two rows of a table hold the same primary-key value.
C5_PrimaryKeysDistinct ==
    \A n \in DOMAIN tables :
        \A i, j \in DOMAIN tables[n].rows :
            i # j => ~PyEq(tables[n].rows[i][tables[n].primary_key],
                           tables[n].rows[j][tables[n].primary_key])

\* C6: no two rows of a table hold the same value in a column declared UNIQUE.
C6_UniqueColumnsDistinct ==
    \A n \in DOMAIN tables : \A col \in tables[n].unique_columns :
        \A i, j \in DOMAIN tables[n].rows :
            i # j => ~PyEq(tables[n].rows[i][col], tables[n].rows[j][col])

\* The row as SELECT * returns it.
AllColumnsOf(t, row) == [j \in DOMAIN t.columns |-> row[t.columns[j][1]]]

\* C7: after a successful INSERT of a row whose key is written k, SELECT * with
\* WHERE id = k returns exactly one row, the row as stored.
C7_RoundTrip ==
    \A k \in KeyLits, v \in ValLits :
        LET ins == execute(tables, InsertQ(users, k \o Sep \o v)) IN
        ins.r.message = "Inserted 1 row" =>
            LET t == ins.T[users]
                sel == execute(ins.T, SelectByKey(k)).r
            IN  sel.success /\ sel.data = << AllColumnsOf(t, t.rows[Len(t.rows)]) >>

\* The pairs (left position, right position) whose join-column values are equal.
MatchingPairs(left_table, left_col, right_table, right_col) ==
    {p \in (DOMAIN left_table.rows) \X (DOMAIN right_table.rows) :
        PyEq(left_table.rows[p[1]][left_col], right_table.rows[p[2]][right_col])}

Joinable(q) ==
    /\ q.table_name \in DOMAIN tables /\ q.right_table \in DOMAIN tables
    /\ q.on[2] \in Range(column_names(tables[q.table_name]))
    /\ q.on[4] \in Range(column_names(tables[q.right_table]))

\* C8: a SELECT ... JOIN without WHERE over two existing tables and valid join
\* columns succeeds with as many rows as there are pairs (left row, right row)
\* with equal join-column values; with no such pair the data is empty.
C8_JoinCountsMatchingPairs ==
    \A q \in JoinQueries :
        Joinable(q) =>
            LET r == execute(tables, q).r IN
            /\ r.success
            /\ Len(r.data) = Cardinality(MatchingPairs(tables[q.table_name], q.on[2],
                                                       tables[q.right_table], q.on[4]))

\* A join returned two combined rows for the same left row.
C8_Witness ==
    /\ last = "SELECT JOIN" /\ result.success
    /\ Len(result.data) = 2 /\ result.data[1][1] = result.data[2][1]
    /\ Len(UsersRows) = 1

SuccessMessages ==
    {"", "Table created successfully", "Inserted 1 row", "Selected", "Selected from JOIN",
     "Updated", "Deleted"}

\* C9: execute always returns a result with a boolean success and a message,
\* and whatever is not one of the successful outcomes has success = false.
C9_ExecuteNeverFaults ==
    last \notin {"edit_record", "delete_record"} =>
        /\ result.raised = ""
        /\ result.success \in BOOLEAN
        /\ (result.success <=> result.message \in SuccessMessages)

\* A handler raised an exception that execute turned into a failure result.
C9_Witness == last = "INSERT INTO" /\ result.message = "Error executing query"

\* The values of an INSERT convert, and the converted key is the key of a stored row.
ClashesWithStoredKey(t, values) ==
    /\ Len(values) = Len(t.columns)
    /\ \A i \in DOMAIN t.columns : convert_value(values[i], t.columns[i][2]).st = "ok"
    /\ \E i \in DOMAIN t.columns :
          /\ t.columns[i][1] = t.primary_key
          /\ \E r \in DOMAIN t.rows :
                PyEq(t.rows[r][t.primary_key], convert_value(values[i], t.columns[i][2]).v)

\* C10: an INSERT whose converted primary-key value equals the key of a stored
\* row fails with a primary-key violation.
C10_DuplicateKeyRejected ==
    \A q \in InsertQueries :
        (users \in DOMAIN tables /\ ClashesWithStoredKey(tables[users], parser_parse(q).values))
            => execute(tables, q).r.message = "Primary key violation"

\* The conversions Table.insert attempts, one per declared column.
Conversions(t, values) ==
    [i \in DOMAIN t.columns |-> convert_value(values[i], t.columns[i][2])]

\* The declared positions whose value does not convert to the column's type.
Unconvertible(t, values) == {i \in DOMAIN t.columns : Conversions(t, values)[i].st # "ok"}

\* The converted value the new row would hold in the column.
NewValue(t, values, col) ==
    Conversions(t, values)[Max({i \in DOMAIN t.columns : t.columns[i][1] = col})].v

\* C11: INSERT reports a value-count mismatch first; otherwise a type error
\* naming the first declared column whose value fails conversion; otherwise a
\* primary-key violation; otherwise a unique violation.
C11_InsertErrorPrecedence ==
    \A q \in InsertQueries :
        users \in DOMAIN tables =>
            LET t == tables[users]
                values == parser_parse(q).values
                r == execute(tables, q).r
                key == NewValue(t, values, t.primary_key)
            IN  IF Len(values) # Len(t.columns) THEN r.message = "Expected values"
                ELSE IF Unconvertible(t, values) # {}
                THEN /\ r.message = "Type error for column"
                     /\ r.arg = t.columns[Min(Unconvertible(t, values))][1]
                ELSE IF DictHas(t.primary_index, key) THEN r.message = "Primary key violation"
                ELSE (\E col \in t.unique_columns :
                          DictHas(t.unique_indexes[col], NewValue(t, values, col)))
                     => r.message = "Unique constraint violation"

\* The index new is the index old with one more entry, key -> pos.
GainsOneEntry(old, new, key, pos) ==
    /\ ~DictHas(old, key)
    /\ DOMAIN new = DOMAIN old \cup {key}
    /\ new[key] = pos
    /\ \A q \in DOMAIN old : new[q] = old[q]

\* C12: a successful INSERT appends exactly one row at position = previous
\* length, leaves the stored rows and their positions as they were, and adds to
\* the primary index and to each unique index exactly one entry, the new row's
\* value -> the new position; nothing else changes.
C12_InsertAppendsOneRow ==
    [][(last' = "INSERT INTO" /\ result'.success) =>
         /\ DOMAIN tables' = DOMAIN tables
         /\ \E n \in DOMAIN tables :
               LET t == tables[n]
                   u == tables'[n]
                   row == u.rows[Len(u.rows)]
               IN  /\ \A m \in DOMAIN tables \ {n} : tables'[m] = tables[m]
                   /\ Len(u.rows) = Len(t.rows) + 1
                   /\ SubSeq(u.rows, 1, Len(t.rows)) = t.rows
                   /\ GainsOneEntry(t.primary_index, u.primary_index,
                                    row[t.primary_key], Len(t.rows))
                   /\ DOMAIN u.unique_indexes = t.unique_columns
                   /\ \A col \in t.unique_columns :
                          GainsOneEntry(t.unique_indexes[col], u.unique_indexes[col],
                                        row[col], Len(t.rows))]_vars

\* An INSERT succeeded on a table that already held a row.
C12_Witness == last = "INSERT INTO" /\ result.success /\ Len(UsersRows) = 2

\* Column lists a caller of Table.select asks for: none, '*', and explicit lists
\* in another order than declared, shorter, and with a repeated name.
RequestedColumns == {<<>>, <<Star>>, <<email, id>>, <<id>>, <<id, id>>}

\* C13: SELECT without WHERE returns every stored row in storage order; columns
\* is the declared list for '*' or an empty request, else the requested list in
\* the requested order; every data row has one entry per column, the i-th being
\* the row's value of columns[i].
C13_SelectAllProjects ==
    users \in DOMAIN tables =>
        \A columns \in RequestedColumns :
            LET t == tables[users]
                r == Table_select(t, columns, NoWhere).r
                expected == IF columns \in {<<>>, <<Star>>} THEN column_names(t) ELSE columns
            IN  /\ r.success
                /\ r.columns = expected
                /\ Len(r.data) = Len(t.rows)
                /\ \A i \in DOMAIN t.rows :
                       /\ Len(r.data[i]) = Len(expected)
                       /\ \A j \in DOMAIN expected : r.data[i][j] = t.rows[i][expected[j]]

\* SELECT email, id FROM users returned two rows, each as (email, id).
C13_Witness ==
    /\ last = "SELECT" /\ result.success /\ result.columns = <<email, id>>
    /\ Len(result.data) = 2 /\ result.data[1][1] # result.data[2][1]
    /\ \A i \in 1..2 : result.data[i] = <<UsersRows[i][email], UsersRows[i][id]>>

\* The row's value of the predicate column equals the predicate value.
Satisfies(row, where) == where.column \in DOMAIN row /\ PyEq(row[where.column], where.value)

\* Every SET value aimed at a declared column converts to the column's type.
SetConvertible(t, set_values) ==
    \A j \in DOMAIN set_values :
        set_values[j][1] \in Range(column_names(t)) =>
            convert_value(set_values[j][2], column_types(t, set_values[j][1])).st = "ok"

\* C14: an UPDATE with predicate col = v and convertible SET values succeeds,
\* reports the number of rows whose col equals v, gives each of those rows, in
\* each SET column, the SET value converted to the column's type, and leaves
\* the other rows, the other columns, the number of rows and their order alone.
C14_UpdateSetsMatchingRows ==
    \A q \in UpdateQueries :
        LET parsed == parser_parse(q) IN
        (/\ users \in DOMAIN tables
         /\ parsed.success /\ parsed.where.present
         /\ SetConvertible(tables[users], parsed.set_values)) =>
            LET t == tables[users]
                out == execute(tables, q)
                rows == out.T[users].rows
                n == Cardinality({i \in DOMAIN t.rows : Satisfies(t.rows[i], parsed.where)})
            IN  /\ out.r.success /\ out.r.message = "Updated" /\ out.r.n = n
                /\ Len(rows) = Len(t.rows)
                /\ \A i \in DOMAIN t.rows :
                       /\ DOMAIN rows[i] = DOMAIN t.rows[i]
                       /\ \A col \in DOMAIN t.rows[i] :
                              LET sets == {j \in DOMAIN parsed.set_values :
                                              parsed.set_values[j][1] = col}
                              IN  IF Satisfies(t.rows[i], parsed.where) /\ sets # {}
                                  THEN \A j \in sets :
                                          rows[i][col] =
                                              convert_value(parsed.set_values[j][2],
                                                            column_types(t, col)).v
                                  ELSE rows[i][col] = t.rows[i][col]

\* An UPDATE changed two rows at once.
C14_Witness == last = "UPDATE" /\ result.message = "Updated" /\ result.n = 2

\* The rows that do not satisfy the predicate, in their order.
RECURSIVE Survivors(_, _, _)
Survivors(rows, where, i) ==
    IF i > Len(rows) THEN <<>>
    ELSE (IF Satisfies(rows[i], where) THEN <<>> ELSE <<rows[i]>>)
         \o Survivors(rows, where, i + 1)

\* C15: a DELETE with predicate col = v removes exactly the rows whose col
\* equals v, keeps the others in their relative order, and reports the number
\* removed; when no row is left, SELECT * succeeds with empty data.
C15_DeleteRemovesMatchingRows ==
    \A q \in DeleteQueries \cup FourDeleteQueries :
        LET parsed == parser_parse(q) IN
        (users \in DOMAIN tables /\ parsed.success /\ parsed.where.present) =>
            LET t == tables[users]
                out == execute(tables, q)
                kept == Survivors(t.rows, parsed.where, 1)
            IN  /\ out.r.success /\ out.r.message = "Deleted"
                /\ out.r.n = Len(t.rows) - Len(kept)
                /\ out.T[users].rows = kept
                /\ kept = <<>> =>
                       LET sel == execute(out.T, SelectQ(Star, users, NoText)).r IN
                       sel.success /\ sel.data = <<>>

\* A DELETE removed two of four rows; the two left are the row of key 3 and,
\* behind it, the row of key 1, as they were inserted.
C15_Witness ==
    /\ last = "DELETE FROM" /\ result.message = "Deleted" /\ result.n = 2
    /\ Len(UsersRows) = 2
    /\ UsersRows[1][id] = PyInt(3) /\ UsersRows[1][email] = PyStr(LitA)
    /\ UsersRows[2][id] = PyInt(1) /\ UsersRows[2][email] = PyStr(LitA)

\* C16: after a DELETE with a predicate returns success, however many rows it
\* removed, the primary index and every unique index are the mapping obtained
\* by scanning the remaining rows in order (value -> position).
C16_DeleteRebuildsIndexes ==
    \A q \in DeleteQueries :
        LET parsed == parser_parse(q)
            out == execute(tables, q)
        IN  (/\ users \in DOMAIN tables
             /\ parsed.success /\ parsed.where.present /\ out.r.success) =>
                LET u == out.T[users] IN
                /\ u.primary_index = IndexOfRows(u.rows, u.primary_key, 1, EmptyDict)
                /\ \A col \in u.unique_columns :
                       u.unique_indexes[col] = IndexOfRows(u.rows, col, 1, EmptyDict)

\* Arguments of direct create_table calls: a registered or a new name, a primary
\* key that is or is not among the columns.
CreateTableArgs ==
    [name : {users, orders}, columns : {ApiColumns, << <<id, TEXT>> >>},
     primary_key : {id, email, ghost}, unique_columns : {<<>>, <<email>>}]

\* C17: create_table fails when the name is already registered or when
\* primary_key is not among the given column names, and then the table mapping,
\* with the schema, rows and indexes of the existing table, is unchanged.
C17_CreateTableRejects ==
    /\ \A a \in CreateTableArgs :
          (\/ a.name \in DOMAIN tables
           \/ a.primary_key \notin {a.columns[i][1] : i \in DOMAIN a.columns}) =>
              LET out == create_table(tables, a.name, a.columns, a.primary_key,
                                      a.unique_columns)
              IN  ~out.r.success /\ out.T = tables
    /\ \A q \in CreateQueries :
          q.table_name \in DOMAIN tables =>
              LET out == execute(tables, q) IN ~out.r.success /\ out.T = tables

\* A second create_table of users was refused while the table held rows.
C17_Witness ==
    /\ last \in {"CREATE TABLE", "create_table"} /\ result.message = "Table already exists"
    /\ Len(UsersRows) >= 1

\* C18: a created table stays registered under its name in every later state,
\* and its column list with the declared types, its primary key and its set of
\* unique columns never change.
C18_SchemaNeverChanges ==
    [][\A n \in DOMAIN tables :
          /\ n \in DOMAIN tables'
          /\ tables'[n].name = tables[n].name
          /\ tables'[n].columns = tables[n].columns
          /\ tables'[n].primary_key = tables[n].primary_key
          /\ tables'[n].unique_columns = tables[n].unique_columns
          /\ DOMAIN tables'[n].unique_indexes = DOMAIN tables[n].unique_indexes]_vars

\* A created table received a row and a DELETE emptied it again.
C18_Witness ==
    /\ users \in DOMAIN tables /\ UsersRows = <<>>
    /\ last = "DELETE FROM" /\ result.message = "Deleted" /\ result.n = 1
    /\ tables[users].primary_index = EmptyDict

\* Statements of every kind but CREATE TABLE, on users, orders and ghost.
StatementQueries ==
    InsertQueries \cup SelectQueries \cup UpdateQueries \cup DeleteQueries
    \cup JoinInsertQueries \cup JoinDeleteQueries \cup JoinQueries
    \cup {InsertQ(ghost, Lit1 \o Sep \o LitA), SelectQ(Star, ghost, NoText),
          UpdateQ(ghost, id \o Eq \o Lit2, id \o Eq \o Lit1), DeleteQ(ghost, id \o Eq \o Lit1)}

\* The statement names a table that is not registered.
NamesMissingTable(q) ==
    \/ q.table_name \notin DOMAIN tables
    \/ q.kw = "SELECT JOIN" /\ q.right_table \notin DOMAIN tables

\* C19: a well-formed INSERT, SELECT, UPDATE, DELETE or SELECT ... JOIN naming
\* an unregistered table returns success = false with the table-does-not-exist
\* message for that table, registers nothing and leaves every table unchanged.
C19_MissingTableRejected ==
    \A q \in StatementQueries :
        (parser_parse(q).success /\ NamesMissingTable(q)) =>
            LET out == execute(tables, q) IN
            /\ ~out.r.success
            /\ out.r.message = "Table does not exist"
            /\ out.r.arg \in {q.table_name, q.right_table} \ DOMAIN tables
            /\ out.T = tables

\* An INSERT into the unregistered users was refused while orders held rows.
C19_Witness ==
    /\ last = "INSERT INTO" /\ result.message = "Table does not exist" /\ result.arg = users
    /\ orders \in DOMAIN tables /\ Len(tables[orders].rows) >= 1

\* C20: a SELECT ... JOIN fails, without data, when a named table is missing or
\* a join column is not a column of its table, and names the first missing item
\* in the order left table, right table, left column, right column.
C20_JoinReportsFirstMissing ==
    \A q \in JoinQueries :
        ~Joinable(q) =>
            LET r == execute(tables, q).r
                missing_table == q.table_name \notin DOMAIN tables
                                 \/ q.right_table \notin DOMAIN tables
            IN  /\ ~r.success /\ r.data = <<>>
                /\ r.message = IF missing_table THEN "Table does not exist"
                               ELSE "Column not found in table"
                /\ r.arg = IF q.table_name \notin DOMAIN tables THEN q.table_name
                           ELSE IF q.right_table \notin DOMAIN tables THEN q.right_table
                           ELSE IF q.on[2] \notin Range(column_names(tables[q.table_name]))
                           THEN q.on[2]
                           ELSE q.on[4]

\* Both join columns were absent from tables that hold rows, and the join
\* reported the left one.
C20_Witness ==
    /\ last = "SELECT JOIN" /\ result.message = "Column not found in table"
    /\ result.arg = ghost
    /\ Len(UsersRows) >= 1 /\ orders \in DOMAIN tables /\ Len(tables[orders].rows) >= 1

\* C21: for SELECT * ... JOIN, columns is the left table's columns in declared
\* order, each prefixed with the left table's name, followed by the right
\* table's columns prefixed likewise, and every data row holds, aligned to
\* columns, the values of a matched left row followed by those of the right row
\* it matched.
C21_JoinStarColumnsAndRows ==
    \A q \in JoinQueries :
        (Joinable(q) /\ q.columns_str = Star) =>
            LET left_table == tables[q.table_name]
                right_table == tables[q.right_table]
                r == execute(tables, q).r
            IN  /\ r.success
                /\ r.columns = PrefixedColumns(q.table_name, left_table)
                               \o PrefixedColumns(q.right_table, right_table)
                /\ \A k \in DOMAIN r.data :
                       \E p \in MatchingPairs(left_table, q.on[2], right_table, q.on[4]) :
                           r.data[k] = AllColumnsOf(left_table, left_table.rows[p[1]])
                                       \o AllColumnsOf(right_table, right_table.rows[p[2]])

\* The matched pairs whose combined row holds, under the key <table>.<column>
\* of the case, a value equal to the predicate value.
FilteredPairs(c) ==
    {p \in MatchingPairs(tables[users], id, tables[orders], user_id) :
        PyEq(IF c.table = users THEN tables[users].rows[p[1]][c.column]
             ELSE tables[orders].rows[p[2]][c.column],
             _parse_single_value(c.lit))}

\* C22: a SELECT ... JOIN with WHERE <table>.<column> = <value> returns exactly
\* the matched combined rows whose value under that key equals the value.
C22_JoinWhereFilters ==
    \A c \in JoinWhereCases :
        (users \in DOMAIN tables /\ orders \in DOMAIN tables) =>
            LET r == execute(tables, JoinWhereQ(c)).r
                pos == CHOOSE j \in DOMAIN r.columns : r.columns[j] = Prefixed(c.table, c.column)
            IN  /\ r.success
                /\ Len(r.data) = Cardinality(FilteredPairs(c))
                /\ \A k \in DOMAIN r.data : PyEq(r.data[k][pos], _parse_single_value(c.lit))

\* C23: a plain SELECT whose WHERE clause is not an equality predicate (id > 1)
\* does not execute as a SELECT: it returns success = false, and so never the
\* table's rows as if no WHERE had been written.
C23_NonEqualityWhereRejected ==
    \A q \in SelectQueries :
        (users \in DOMAIN tables /\ q.where_str = NotEquality) =>
            ~execute(tables, q).r.success

(***************************************************************************)
(* The parser on INSERT value lists.  result.arg is the list of the value  *)
(* texts as written, result.data the values parse returned for             *)
(* INSERT INTO users VALUES (<the texts joined by commas>).                *)
(***************************************************************************)
Q007 == <<"'", "0", "0", "7", "'">>

QSpaced == <<"'", " ", "a", " ", "'">>

QEmpty == <<"'", "'">>

DQ1 == <<"\"", "1", "\"">>

QComma == <<"'", "a", ",", "b", "'">>

DQApos == <<"\"", "a", "'", "b", "\"">>

QBoth == <<"'", "a", "\"", ",", "b", "'">>

\* Quoted values that hold a comma or a quote character of the other kind.
QuotedSeparators == {QComma, DQApos, QBoth}

ValueItems ==
    {Lit1, LitA, LitTabbed, LitExp, LitNan, Q007, QSpaced, QEmpty, DQ1} \cup QuotedSeparators

MaxValues == 3

ValueLists == UNION {[1..n -> ValueItems] : n \in 1..MaxValues}

RECURSIVE JoinComma(_)
JoinComma(items) ==
    IF Len(items) = 0 THEN <<>>
    ELSE IF Len(items) = 1 THEN items[1]
    ELSE items[1] \o Sep \o JoinComma(Tail(items))

\* The parser keeps no state between calls, so each list is parsed once, from
\* the initial state.
ParseInsertValues ==
    \E items \in ValueLists :
        LET parsed == parser_parse(InsertQ(users, JoinComma(items))) IN
        /\ last = ""
        /\ result' = Result(parsed.success, parsed.message, items, Len(parsed.values),
                            <<>>, parsed.values)
        /\ last' = "parse"
        /\ UNCHANGED <<tables, calls>>

\* Column definitions of a CREATE TABLE statement: a column name and the mark
\* written after its type (none, PRIMARY KEY, primary key in lower case, or
\* PRIMARY KEY after tabs).
LowerKey == <<" ", "p", "r", "i", "m", "a", "r", "y", " ", "k", "e", "y">>

\* PRIMARY KEY written after tabs.
TabKey == <<"\t", "P", "R", "I", "M", "A", "R", "Y", "\t", "K", "E", "Y">>

TypeOf(name) == IF name = id THEN INT ELSE IF name = email THEN TEXT ELSE FLOAT

MarkedDefs ==
    {[name |-> n, mark |-> m] : n \in {id, email, user_id}, m \in {NoText, PrimaryKey}}
    \cup {[name |-> email, mark |-> LowerKey], [name |-> user_id, mark |-> TabKey]}

MaxColumns == 3

\* Lists of one to MaxColumns definitions with distinct column names.
DefLists ==
    {defs \in UNION {[1..n -> MarkedDefs] : n \in 1..MaxColumns} :
        \A i \in DOMAIN defs, j \in DOMAIN defs : defs[i].name = defs[j].name => i = j}

DefText(d) == d.name \o <<" ">> \o TypeOf(d.name) \o d.mark

\* CREATE TABLE users (...) with the definitions of defs; the result's arg
\* records defs, the definitions as written.
ExecMarkedCreate ==
    \E defs \in DefLists :
        LET q == CreateTableQ(users, JoinComma([i \in DOMAIN defs |-> DefText(defs[i])]))
            out == execute(tables, q)
        IN  /\ last = ""
            /\ tables' = out.T
            /\ result' = [out.r EXCEPT !.arg = defs]
            /\ last' = q.kw
            /\ UNCHANGED calls

NextParse ==
    \/ ParseInsertValues
    \/ ExecMarkedCreate

SpecParse == Init /\ [][NextParse]_vars

\* C24: every value written between matching quote characters in an INSERT
\* value list is parsed, at its position, as the text between the quotes,
\* verbatim: '007' stays 007, inner spaces stay, '' is the empty text.
C24_QuotedValuesVerbatim ==
    last = "parse" =>
        /\ result.success
        /\ \A i \in DOMAIN result.arg :
               Quoted(result.arg[i]) =>
                   /\ i <= Len(result.data)
                   /\ result.data[i] = PyStr(SubSeq(result.arg[i], 2, Len(result.arg[i]) - 1))

\* A column definition carries PRIMARY KEY: it contains, in any case, the
\* words PRIMARY and KEY.
CarriesPrimaryKey(col_def) ==
    /\ Contains(Upper(col_def), <<"P", "R", "I", "M", "A", "R", "Y">>)
    /\ Contains(Upper(col_def), <<"K", "E", "Y">>)

NoPrimaryKey(columns_str) ==
    \A col_def \in Range(Split(columns_str, ",")) : ~CarriesPrimaryKey(col_def)

LaterStatements(name) ==
    {InsertQ(name, Lit1 \o Sep \o LitA), SelectQ(Star, name, NoText),
     UpdateQ(name, id \o Eq \o Lit2, id \o Eq \o Lit1), DeleteQ(name, id \o Eq \o Lit1)}

\* C25: a CREATE TABLE statement in which no column definition carries
\* PRIMARY KEY returns success = false and leaves the table mapping unchanged;
\* when the name was not registered before, a following INSERT, SELECT, UPDATE
\* or DELETE on that name fails with the table-does-not-exist message.
C25_CreateWithoutKeyRejected ==
    \A q \in CreateQueries :
        NoPrimaryKey(q.columns_str) =>
            LET out == execute(tables, q) IN
            /\ ~out.r.success
            /\ out.T = tables
            /\ q.table_name \notin DOMAIN tables =>
                    \A s \in LaterStatements(q.table_name) :
                        LET later == execute(out.T, s) IN
                        /\ ~later.r.success
                        /\ later.r.message = "Table does not exist"
                        /\ later.r.arg = q.table_name

\* A CREATE TABLE without primary key was refused while users held rows.
C25_Witness ==
    /\ last = "CREATE TABLE" /\ result.message = "No PRIMARY KEY specified"
    /\ users \in DOMAIN tables /\ Len(tables[users].rows) >= 1

\* Position, among the SET items, of the first one whose value does not
\* convert to the type of its declared column.
FirstFailing(t, set_values) ==
    CHOOSE j \in DOMAIN set_values :
        /\ set_values[j][1] \in Range(column_names(t))
        /\ convert_value(set_values[j][2], column_types(t, set_values[j][1])).st # "ok"
        /\ SetConvertible(t, SubSeq(set_values, 1, j - 1))

\* C26: an UPDATE whose predicate matches a row and one of whose SET values
\* does not convert returns success = false and does not roll back: the first
\* matching row holds the converted values of the SET columns that precede the
\* failing one, and keeps its other columns; every other row is as before.
C26_UpdateFailsWithoutRollback ==
    \A q \in UpdateQueries :
        LET parsed == parser_parse(q) IN
        (/\ users \in DOMAIN tables
         /\ parsed.success /\ parsed.where.present
         /\ Matching(tables[users].rows, parsed.where) # <<>>
         /\ ~SetConvertible(tables[users], parsed.set_values)) =>
            LET t == tables[users]
                out == execute(tables, q)
                rows == out.T[users].rows
                first == Matching(t.rows, parsed.where)[1] + 1
                failing == FirstFailing(t, parsed.set_values)
            IN  /\ ~out.r.success
                /\ Len(rows) = Len(t.rows)
                /\ \A i \in DOMAIN t.rows :
                       /\ DOMAIN rows[i] = DOMAIN t.rows[i]
                       /\ \A col \in DOMAIN t.rows[i] :
                              LET sets == {j \in 1..(failing - 1) :
                                              parsed.set_values[j][1] = col}
                              IN  IF i = first /\ sets # {}
                                  THEN \A j \in sets :
                                          rows[i][col] =
                                              convert_value(parsed.set_values[j][2],
                                                            column_types(t, col)).v
                                  ELSE rows[i][col] = t.rows[i][col]

\* An UPDATE on the table with id INT failed on its second SET item, id = a,
\* after it had written email = a into a row: the row holds 'a', which no
\* INSERT recorded in the unique index.
C26_Witness ==
    /\ last = "UPDATE" /\ ~result.success /\ result.message = "Type error"
    /\ users \in DOMAIN tables
    /\ column_types(tables[users], id) = INT
    /\ \E i \in DOMAIN tables[users].rows :
           /\ tables[users].rows[i][email] = PyStr(LitA)
           /\ ~DictHas(tables[users].unique_indexes[email], PyStr(LitA))

\* SELECT * with an equality predicate on the column id.
KeySelects == {SelectQ(Star, users, id \o Eq \o lit) : lit \in {Lit1, Lit2, LitA}}

\* The rows of `rows` whose column where.column equals where.value, in
\* storage order, each projected to the declared columns.
RECURSIVE LinearScan(_, _, _, _)
LinearScan(t, rows, where, i) ==
    IF i > Len(rows) THEN <<>>
    ELSE (IF Satisfies(rows[i], where)
          THEN << [j \in DOMAIN t.columns |-> rows[i][t.columns[j][1]]] >>
          ELSE <<>>)
         \o LinearScan(t, rows, where, i + 1)

\* C27: in every state reached by INSERT, UPDATE and DELETE calls, a SELECT
\* whose predicate is on the primary-key column succeeds with at most one row,
\* and with exactly the rows a linear scan of the stored rows comparing the
\* primary-key column with the predicate value yields.
C27_KeyLookupEqualsScan ==
    \A q \in KeySelects :
        LET parsed == parser_parse(q) IN
        (/\ users \in DOMAIN tables
         /\ parsed.success /\ parsed.where.present
         /\ parsed.where.column = tables[users].primary_key) =>
            LET r == execute(tables, q).r IN
            /\ r.success
            /\ Len(r.data) <= 1
            /\ r.data = LinearScan(tables[users], tables[users].rows, parsed.where, 1)

\* C28: an UPDATE, successful or failed, through execute or through the web
\* edit, leaves primary_index and every unique index of every table with the
\* same keys and positions as before the call, also when a SET clause assigns
\* the primary-key or a unique column.
C28_UpdateKeepsIndexes ==
    [][last' \in {"UPDATE", "edit_record"} =>
         /\ DOMAIN tables' = DOMAIN tables
         /\ \A n \in DOMAIN tables :
                /\ tables'[n].primary_index = tables[n].primary_index
                /\ tables'[n].unique_indexes = tables[n].unique_indexes]_vars

\* An UPDATE assigned the primary-key column of a row: the row's key value is
\* not a key of primary_index.
C28_Witness ==
    /\ last = "UPDATE" /\ result.success /\ result.n >= 1
    /\ users \in DOMAIN tables
    /\ \E i \in DOMAIN tables[users].rows :
           ~DictHas(tables[users].primary_index, tables[users].rows[i][id])

\* The values have the table's column count, convert to the column types, and
\* the new row's primary-key and unique-column values equal those of no
\* stored row.
InsertableValues(t, values) ==
    /\ Len(values) = Len(t.columns)
    /\ Unconvertible(t, values) = {}
    /\ \A i \in DOMAIN t.rows :
           \A col \in {t.primary_key} \cup t.unique_columns :
               ~PyEq(t.rows[i][col], NewValue(t, values, col))

\* C29: in a table modified only by INSERT and DELETE, an INSERT with valid
\* count and types whose primary-key and unique-column values clash with no
\* remaining row succeeds and appends the row; in particular the key and the
\* unique values of a row that a DELETE removed can be inserted again.
C29_KeyReuseAfterDelete ==
    \A q \in InsertQueries :
        LET parsed == parser_parse(q) IN
        (/\ users \in DOMAIN tables
         /\ parsed.success
         /\ InsertableValues(tables[users], parsed.values)) =>
            LET t == tables[users]
                out == execute(tables, q)
            IN  /\ out.r.success
                /\ Len(out.T[users].rows) = Len(t.rows) + 1
                /\ \A col \in {t.primary_key} \cup t.unique_columns :
                       out.T[users].rows[Len(t.rows) + 1][col] = NewValue(t, parsed.values, col)

\* A DELETE removed the first of two rows, whose key and unique value are now
\* free, and left the other row at position 0.
C29_Witness ==
    /\ last = "DELETE FROM" /\ result.success /\ result.n = 1
    /\ Len(UsersRows) = 1
    /\ ~PyEq(UsersRows[1][id], PyInt(1)) /\ ~PyEq(UsersRows[1][id], PyStr(Lit1))
    /\ \E q \in InsertQueries :
           /\ parser_parse(q).values[1] = PyInt(1)
           /\ InsertableValues(tables[users], parser_parse(q).values)

\* Pair p comes before pair q: earlier left row, or the same left row and an
\* earlier right row.
LeftMajorBefore(p, q) == p[1] < q[1] \/ (p[1] = q[1] /\ p[2] < q[2])

\* The pair with exactly k - 1 pairs of the set before it.
PairAt(pairs, k) ==
    CHOOSE p \in pairs : Cardinality({q \in pairs : LeftMajorBefore(q, p)}) = k - 1

\* C30: the rows of a JOIN result are in left-major order: the k-th data row
\* is the combined row of the k-th matching pair, pairs being ordered by the
\* storage position of the left row and then of the right row.  (When both
\* sides are the same table only the right row's half is compared.)
C30_JoinLeftMajorOrder ==
    \A q \in JoinQueries :
        (Joinable(q) /\ q.columns_str = Star) =>
            LET left_table == tables[q.table_name]
                right_table == tables[q.right_table]
                pairs == MatchingPairs(left_table, q.on[2], right_table, q.on[4])
                r == execute(tables, q).r
                width == Len(left_table.columns)
            IN  /\ r.success
                /\ Len(r.data) = Cardinality(pairs)
                /\ \A k \in DOMAIN r.data :
                       LET p == PairAt(pairs, k) IN
                       /\ Len(r.data[k]) = width + Len(right_table.columns)
                       /\ SubSeq(r.data[k], width + 1, Len(r.data[k]))
                              = AllColumnsOf(right_table, right_table.rows[p[2]])
                       /\ q.table_name # q.right_table =>
                              SubSeq(r.data[k], 1, width)
                                  = AllColumnsOf(left_table, left_table.rows[p[1]])

\* users holds the keys 2, 1 in that order and orders refers to the users 1, 2
\* in that order; the join answered with the row of user 2 first.
C30_Witness ==
    /\ last = "SELECT JOIN" /\ result.success /\ result.n = 2
    /\ users \in DOMAIN tables /\ orders \in DOMAIN tables
    /\ Len(tables[users].rows) = 2 /\ Len(tables[orders].rows) = 2
    /\ tables[users].rows[1][id] = PyInt(2) /\ tables[users].rows[2][id] = PyInt(1)
    /\ PyEq(tables[orders].rows[1][user_id], PyInt(1))
    /\ PyEq(tables[orders].rows[2][user_id], PyInt(2))
    /\ Len(result.columns) = 4 /\ result.columns[1] = Prefixed(users, id)
    /\ result.data[1][1] = PyInt(2) /\ result.data[2][1] = PyInt(1)

\* SELECT statements on users and on orders, and the SELECT ... JOIN statements.
ReadQueries ==
    SelectQueries \cup KeySelects
    \cup {SelectQ(Star, orders, w) : w \in {NoText, id \o Eq \o Lit1, user_id \o Eq \o Lit1}}
    \cup JoinQueries \cup JoinWhereQueries

\* C31: SELECT and SELECT ... JOIN are read-only: whatever the query and the
\* state, the call leaves the set of registered tables and every table's rows,
\* primary_index, unique indexes and schema as they were.
C31_SelectReadOnly ==
    \A q \in ReadQueries : execute(tables, q).T = tables

\* A join over two tables that hold rows returned combined rows.
C31_Witness ==
    /\ last = "SELECT JOIN" /\ result.success /\ result.n >= 1
    /\ users \in DOMAIN tables /\ orders \in DOMAIN tables
    /\ Len(tables[users].rows) >= 1 /\ Len(tables[orders].rows) = 2

\* INSERT, UPDATE and DELETE statements on users and on orders.
WriteQueries ==
    JoinInsertQueries \cup JoinDeleteQueries
    \cup {UpdateQ(users, email \o Eq \o LitA, id \o Eq \o Lit1),
          UpdateQ(users, id \o Eq \o Lit2, id \o Eq \o Lit1),
          UpdateQ(orders, user_id \o Eq \o Lit2, id \o Eq \o Lit1),
          UpdateQ(orders, id \o Eq \o Lit3 \o Sep \o user_id \o Eq \o LitA,
                  user_id \o Eq \o Lit1)}

\* C32: an INSERT, UPDATE or DELETE on one table leaves every other registered
\* table (rows, indexes, schema) as it was and registers or drops nothing; a
\* successful CREATE TABLE leaves every table registered before as it was.
C32_TableIsolation ==
    /\ \A q \in WriteQueries :
           LET out == execute(tables, q) IN
           /\ DOMAIN out.T = DOMAIN tables
           /\ \A n \in DOMAIN tables \ {q.table_name} : out.T[n] = tables[n]
    /\ \A q \in JoinCreateQueries :
           LET out == execute(tables, q) IN
           out.r.success =>
               /\ DOMAIN out.T = DOMAIN tables \cup {q.table_name}
               /\ \A n \in DOMAIN tables : out.T[n] = tables[n]

\* A DELETE emptied users while orders kept its two rows.
C32_Witness ==
    /\ last = "DELETE FROM" /\ result.success /\ result.n >= 1
    /\ users \in DOMAIN tables /\ orders \in DOMAIN tables
    /\ tables[users].rows = <<>> /\ Len(tables[orders].rows) = 2

\* UPDATE statements whose SET clause names the undeclared column ghost, alone
\* and next to a declared column.
UnknownColumnUpdates ==
    {UpdateQ(users, st, w) :
        st \in {ghost \o Eq \o Lit1,
                ghost \o Eq \o Lit1 \o Sep \o email \o Eq \o LitQ1,
                email \o Eq \o LitQ1 \o Sep \o ghost \o Eq \o LitA},
        w \in {id \o Eq \o Lit1, email \o Eq \o LitA, email \o Eq \o LitQ1}}

\* C33: every stored row has exactly the table's column names as keys, and an
\* UPDATE whose SET clause names an undeclared column (its other SET values
\* converting) succeeds, reports the number of matching rows, gives no row an
\* entry for that column and changes only the declared SET columns of the
\* matching rows.
C33_UnknownSetColumnIgnored ==
    /\ \A n \in DOMAIN tables : \A i \in DOMAIN tables[n].rows :
           DOMAIN tables[n].rows[i] = Range(column_names(tables[n]))
    /\ \A q \in UnknownColumnUpdates :
           LET parsed == parser_parse(q) IN
           (/\ users \in DOMAIN tables
            /\ parsed.success /\ parsed.where.present
            /\ SetConvertible(tables[users], parsed.set_values)) =>
               LET t == tables[users]
                   out == execute(tables, q)
                   rows == out.T[users].rows
                   declared(col) == {j \in DOMAIN parsed.set_values :
                                        parsed.set_values[j][1] = col}
               IN  /\ out.r.success /\ out.r.message = "Updated"
                   /\ out.r.n = Cardinality({i \in DOMAIN t.rows :
                                                Satisfies(t.rows[i], parsed.where)})
                   /\ Len(rows) = Len(t.rows)
                   /\ \A i \in DOMAIN t.rows :
                          /\ DOMAIN rows[i] = Range(column_names(t))
                          /\ \A col \in DOMAIN t.rows[i] :
                                 (declared(col) = {} \/ ~Satisfies(t.rows[i], parsed.where))
                                     => rows[i][col] = t.rows[i][col]

\* UPDATE users SET ghost = 1 matched the only row and reported one row: on
\* the table with id INT every other successful SET writes email '1' or id 2,
\* and the row still holds id 1 and email 'a'.
C33_Witness ==
    /\ last = "UPDATE" /\ result.success /\ result.message = "Updated" /\ result.n = 1
    /\ users \in DOMAIN tables
    /\ column_types(tables[users], id) = INT
    /\ Len(tables[users].rows) = 1
    /\ tables[users].rows[1][id] = PyInt(1)
    /\ tables[users].rows[1][email] = PyStr(LitA)
    /\ DOMAIN tables[users].rows[1] = {id, email}

\* Table names written as qualifiers in an ON clause.
Qualifiers == {users, orders, ghost}

\* The statement q with its ON clause qualified by lt on the left of '=' and
\* by rt on the right.
Requalified(q, lt, rt) == [q EXCEPT !.on = On(lt, q.on[2], rt, q.on[4])]

\* C34: the ON columns of a join are bound by position: the column left of
\* '=' is looked up in the FROM table and the one right of '=' in the JOIN
\* table, so a join statement gives the same result and the same tables
\* whatever table names qualify its two ON columns.
C34_JoinOnBoundByPosition ==
    \A q \in JoinQueries \cup JoinWhereQueries :
        /\ \A lt \in Qualifiers, rt \in Qualifiers :
               execute(tables, Requalified(q, lt, rt)) = execute(tables, q)
        /\ (q.table_name \in DOMAIN tables /\ q.right_table \in DOMAIN tables) =>
               (execute(tables, q).r.success <=> Joinable(q))

\* users JOIN orders over user 2 and two orders of user 2: the statement
\* written ON orders.id = users.user_id takes id from users and user_id from
\* orders and returns both orders.
C34_Witness ==
    /\ last = "SELECT JOIN" /\ result.success /\ result.n = 2
    /\ users \in DOMAIN tables /\ orders \in DOMAIN tables
    /\ Len(tables[users].rows) = 1 /\ tables[users].rows[1][id] = PyInt(2)
    /\ Len(tables[orders].rows) = 2
    /\ \A i \in 1..2 : PyEq(tables[orders].rows[i][user_id], PyInt(2))
    /\ result.columns[1] = Prefixed(users, id)

\* C35: in an INSERT value list only commas outside quotes separate values: a
\* list of items joined by commas parses to one value per item, each the value
\* the item parses to alone, and an item quoted around a comma or around a
\* quote character of the other kind is the one text between its quotes.
\* (The empty quoted text, which alone or in last place yields no value, is
\* left to C24.)
C35_QuotedCommasDoNotSplit ==
    (last = "parse" /\ result.arg[Len(result.arg)] # QEmpty) =>
        /\ result.success
        /\ Len(result.data) = Len(result.arg)
        /\ \A i \in DOMAIN result.arg :
               /\ result.arg[i] # QEmpty => _parse_values(result.arg[i]) = <<result.data[i]>>
               /\ result.arg[i] \in QuotedSeparators =>
                      result.data[i] = PyStr(SubSeq(result.arg[i], 2, Len(result.arg[i]) - 1))

\* A list of three values was parsed whose first is quoted around a double
\* quote and a comma and whose second is double-quoted around an apostrophe.
C35_Witness ==
    /\ last = "parse" /\ result.success
    /\ Len(result.arg) = 3 /\ result.arg[1] = QBoth /\ result.arg[2] = DQApos
    /\ result.arg[3] = QComma
    /\ Len(result.data) = 3

\* C36: a CREATE TABLE that marks one or several columns PRIMARY KEY creates
\* the table with the last marked column, in declaration order, as primary
\* key, and with the columns in the declared order.
C36_LastPrimaryKeyWins ==
    (/\ last = "CREATE TABLE"
     /\ \E i \in DOMAIN result.arg : result.arg[i].mark # NoText) =>
        LET defs == result.arg
            last_marked == Max({i \in DOMAIN defs : defs[i].mark # NoText})
        IN  /\ result.success
            /\ DOMAIN tables = {users}
            /\ tables[users].primary_key = defs[last_marked].name
            /\ tables[users].columns =
                   [i \in DOMAIN defs |-> <<defs[i].name, TypeOf(defs[i].name)>>]
            /\ tables[users].rows = <<>>

\* Three columns were declared, the first and the second marked PRIMARY KEY
\* (the second in lower case): the table's primary key is the second.
C36_Witness ==
    /\ last = "CREATE TABLE" /\ result.success
    /\ Len(result.arg) = 3
    /\ result.arg[1] = [name |-> id, mark |-> PrimaryKey]
    /\ result.arg[2] = [name |-> email, mark |-> LowerKey]
    /\ result.arg[3].mark = NoText
    /\ tables[users].primary_key = email

\* Both calls have returned and carried the same primary-key value.
SameKeyCalls ==
    /\ \A t \in Callers : calls[t].pc = "returned" /\ calls[t].row # EmptyDict
    /\ PyEq(calls[1].row[id], calls[2].row[id])

\* Both calls returned success and two stored rows hold the calls' key.
BothInserted ==
    /\ \A t \in Callers : calls[t].ret.success
    /\ Cardinality({i \in DOMAIN tables[users].rows :
                       PyEq(tables[users].rows[i][id], calls[1].row[id])}) = 2

\* C37 as stated: when two INSERT calls with the same primary-key value both
\* pass the primary_index membership check before either appends its row, both
\* return success and the table ends with two rows sharing that key.
C37_RaceAfterPrimaryCheck ==
    (SameKeyCalls /\ \A t \in Callers : calls[t].checked_primary) => BothInserted

\* C37, amended: when two INSERT calls with the same primary-key value both
\* pass every membership check, of primary_index and of the unique indexes,
\* before either appends its row, both return success and the table ends with
\* two rows sharing that key.
C37_RaceAfterAllChecks ==
    (SameKeyCalls /\ \A t \in Callers : calls[t].checked_all) => BothInserted

\* Two calls with key 1 and the same email both passed their checks before
\* either appended; both returned success, the table holds two rows with key
\* 1 after the stored row, and the indexes know one position per value.
C37_Witness ==
    /\ SameKeyCalls /\ \A t \in Callers : calls[t].checked_all
    /\ calls[1].row = calls[2].row
    /\ calls[1].row[id] = PyInt(1)
    /\ Len(tables[users].rows) = 3
    /\ tables[users].rows[2] = tables[users].rows[3]
    /\ \A t \in Callers : calls[t].ret.success

====
